---------------------------- MODULE Spec2Model ----------------------------
(***************************************************************************)
(* Model of get_hist.py (IBKR historical data downloader).                 *)
(*                                                                         *)
(* Python strings are modelled as sequences of one-character strings, so   *)
(* that parsing and formatting are real conversions.  None and the empty   *)
(* string are both falsy in every test the code makes on a date argument   *)
(* and are both written <<>>.                                              *)
(***************************************************************************)
EXTENDS Integers, Sequences, FiniteSets, TLC

(***************************************************************************)
(* Bounds of the model.                                                    *)
(***************************************************************************)
\* number of consecutive calendar years the date inputs are drawn from
NumYears == 2
\* largest number of rename candidates that may already exist on disk
MaxExisting == 2
\* largest number of answers read at the conflict prompt in one run
MaxPrompts == 3

(***************************************************************************)
(* Characters, decimal formatting and parsing.                             *)
(***************************************************************************)
\* A character is a one-character string.  A character above U+00FF is
\* written by the name of its code point: "U+0660" is ARABIC-INDIC DIGIT ZERO.

\* the digits str() and the number formats of an f-string and strftime write
Digits == <<"0", "1", "2", "3", "4", "5", "6", "7", "8", "9">>

\* [lo-hi] of a regular expression, for two of the digits 0 to 9
InRange(c, lo, hi) == \E v \in lo..hi : Digits[v + 1] = c

\* the decimal digits of Unicode 14.0 (category Nd), the ten of each script
\* in the order of their value: the characters \d of a str pattern matches
\* and int() reads
DecimalDigitRows ==
    <<<<"0", "1", "2", "3", "4", "5", "6", "7", "8", "9">>,
      <<"U+0660", "U+0661", "U+0662", "U+0663", "U+0664", "U+0665", "U+0666", "U+0667", "U+0668", "U+0669">>,
      <<"U+06F0", "U+06F1", "U+06F2", "U+06F3", "U+06F4", "U+06F5", "U+06F6", "U+06F7", "U+06F8", "U+06F9">>,
      <<"U+07C0", "U+07C1", "U+07C2", "U+07C3", "U+07C4", "U+07C5", "U+07C6", "U+07C7", "U+07C8", "U+07C9">>,
      <<"U+0966", "U+0967", "U+0968", "U+0969", "U+096A", "U+096B", "U+096C", "U+096D", "U+096E", "U+096F">>,
      <<"U+09E6", "U+09E7", "U+09E8", "U+09E9", "U+09EA", "U+09EB", "U+09EC", "U+09ED", "U+09EE", "U+09EF">>,
      <<"U+0A66", "U+0A67", "U+0A68", "U+0A69", "U+0A6A", "U+0A6B", "U+0A6C", "U+0A6D", "U+0A6E", "U+0A6F">>,
      <<"U+0AE6", "U+0AE7", "U+0AE8", "U+0AE9", "U+0AEA", "U+0AEB", "U+0AEC", "U+0AED", "U+0AEE", "U+0AEF">>,
      <<"U+0B66", "U+0B67", "U+0B68", "U+0B69", "U+0B6A", "U+0B6B", "U+0B6C", "U+0B6D", "U+0B6E", "U+0B6F">>,
      <<"U+0BE6", "U+0BE7", "U+0BE8", "U+0BE9", "U+0BEA", "U+0BEB", "U+0BEC", "U+0BED", "U+0BEE", "U+0BEF">>,
      <<"U+0C66", "U+0C67", "U+0C68", "U+0C69", "U+0C6A", "U+0C6B", "U+0C6C", "U+0C6D", "U+0C6E", "U+0C6F">>,
      <<"U+0CE6", "U+0CE7", "U+0CE8", "U+0CE9", "U+0CEA", "U+0CEB", "U+0CEC", "U+0CED", "U+0CEE", "U+0CEF">>,
      <<"U+0D66", "U+0D67", "U+0D68", "U+0D69", "U+0D6A", "U+0D6B", "U+0D6C", "U+0D6D", "U+0D6E", "U+0D6F">>,
      <<"U+0DE6", "U+0DE7", "U+0DE8", "U+0DE9", "U+0DEA", "U+0DEB", "U+0DEC", "U+0DED", "U+0DEE", "U+0DEF">>,
      <<"U+0E50", "U+0E51", "U+0E52", "U+0E53", "U+0E54", "U+0E55", "U+0E56", "U+0E57", "U+0E58", "U+0E59">>,
      <<"U+0ED0", "U+0ED1", "U+0ED2", "U+0ED3", "U+0ED4", "U+0ED5", "U+0ED6", "U+0ED7", "U+0ED8", "U+0ED9">>,
      <<"U+0F20", "U+0F21", "U+0F22", "U+0F23", "U+0F24", "U+0F25", "U+0F26", "U+0F27", "U+0F28", "U+0F29">>,
      <<"U+1040", "U+1041", "U+1042", "U+1043", "U+1044", "U+1045", "U+1046", "U+1047", "U+1048", "U+1049">>,
      <<"U+1090", "U+1091", "U+1092", "U+1093", "U+1094", "U+1095", "U+1096", "U+1097", "U+1098", "U+1099">>,
      <<"U+17E0", "U+17E1", "U+17E2", "U+17E3", "U+17E4", "U+17E5", "U+17E6", "U+17E7", "U+17E8", "U+17E9">>,
      <<"U+1810", "U+1811", "U+1812", "U+1813", "U+1814", "U+1815", "U+1816", "U+1817", "U+1818", "U+1819">>,
      <<"U+1946", "U+1947", "U+1948", "U+1949", "U+194A", "U+194B", "U+194C", "U+194D", "U+194E", "U+194F">>,
      <<"U+19D0", "U+19D1", "U+19D2", "U+19D3", "U+19D4", "U+19D5", "U+19D6", "U+19D7", "U+19D8", "U+19D9">>,
      <<"U+1A80", "U+1A81", "U+1A82", "U+1A83", "U+1A84", "U+1A85", "U+1A86", "U+1A87", "U+1A88", "U+1A89">>,
      <<"U+1A90", "U+1A91", "U+1A92", "U+1A93", "U+1A94", "U+1A95", "U+1A96", "U+1A97", "U+1A98", "U+1A99">>,
      <<"U+1B50", "U+1B51", "U+1B52", "U+1B53", "U+1B54", "U+1B55", "U+1B56", "U+1B57", "U+1B58", "U+1B59">>,
      <<"U+1BB0", "U+1BB1", "U+1BB2", "U+1BB3", "U+1BB4", "U+1BB5", "U+1BB6", "U+1BB7", "U+1BB8", "U+1BB9">>,
      <<"U+1C40", "U+1C41", "U+1C42", "U+1C43", "U+1C44", "U+1C45", "U+1C46", "U+1C47", "U+1C48", "U+1C49">>,
      <<"U+1C50", "U+1C51", "U+1C52", "U+1C53", "U+1C54", "U+1C55", "U+1C56", "U+1C57", "U+1C58", "U+1C59">>,
      <<"U+A620", "U+A621", "U+A622", "U+A623", "U+A624", "U+A625", "U+A626", "U+A627", "U+A628", "U+A629">>,
      <<"U+A8D0", "U+A8D1", "U+A8D2", "U+A8D3", "U+A8D4", "U+A8D5", "U+A8D6", "U+A8D7", "U+A8D8", "U+A8D9">>,
      <<"U+A900", "U+A901", "U+A902", "U+A903", "U+A904", "U+A905", "U+A906", "U+A907", "U+A908", "U+A909">>,
      <<"U+A9D0", "U+A9D1", "U+A9D2", "U+A9D3", "U+A9D4", "U+A9D5", "U+A9D6", "U+A9D7", "U+A9D8", "U+A9D9">>,
      <<"U+A9F0", "U+A9F1", "U+A9F2", "U+A9F3", "U+A9F4", "U+A9F5", "U+A9F6", "U+A9F7", "U+A9F8", "U+A9F9">>,
      <<"U+AA50", "U+AA51", "U+AA52", "U+AA53", "U+AA54", "U+AA55", "U+AA56", "U+AA57", "U+AA58", "U+AA59">>,
      <<"U+ABF0", "U+ABF1", "U+ABF2", "U+ABF3", "U+ABF4", "U+ABF5", "U+ABF6", "U+ABF7", "U+ABF8", "U+ABF9">>,
      <<"U+FF10", "U+FF11", "U+FF12", "U+FF13", "U+FF14", "U+FF15", "U+FF16", "U+FF17", "U+FF18", "U+FF19">>,
      <<"U+104A0", "U+104A1", "U+104A2", "U+104A3", "U+104A4", "U+104A5", "U+104A6", "U+104A7", "U+104A8", "U+104A9">>,
      <<"U+10D30", "U+10D31", "U+10D32", "U+10D33", "U+10D34", "U+10D35", "U+10D36", "U+10D37", "U+10D38", "U+10D39">>,
      <<"U+11066", "U+11067", "U+11068", "U+11069", "U+1106A", "U+1106B", "U+1106C", "U+1106D", "U+1106E", "U+1106F">>,
      <<"U+110F0", "U+110F1", "U+110F2", "U+110F3", "U+110F4", "U+110F5", "U+110F6", "U+110F7", "U+110F8", "U+110F9">>,
      <<"U+11136", "U+11137", "U+11138", "U+11139", "U+1113A", "U+1113B", "U+1113C", "U+1113D", "U+1113E", "U+1113F">>,
      <<"U+111D0", "U+111D1", "U+111D2", "U+111D3", "U+111D4", "U+111D5", "U+111D6", "U+111D7", "U+111D8", "U+111D9">>,
      <<"U+112F0", "U+112F1", "U+112F2", "U+112F3", "U+112F4", "U+112F5", "U+112F6", "U+112F7", "U+112F8", "U+112F9">>,
      <<"U+11450", "U+11451", "U+11452", "U+11453", "U+11454", "U+11455", "U+11456", "U+11457", "U+11458", "U+11459">>,
      <<"U+114D0", "U+114D1", "U+114D2", "U+114D3", "U+114D4", "U+114D5", "U+114D6", "U+114D7", "U+114D8", "U+114D9">>,
      <<"U+11650", "U+11651", "U+11652", "U+11653", "U+11654", "U+11655", "U+11656", "U+11657", "U+11658", "U+11659">>,
      <<"U+116C0", "U+116C1", "U+116C2", "U+116C3", "U+116C4", "U+116C5", "U+116C6", "U+116C7", "U+116C8", "U+116C9">>,
      <<"U+11730", "U+11731", "U+11732", "U+11733", "U+11734", "U+11735", "U+11736", "U+11737", "U+11738", "U+11739">>,
      <<"U+118E0", "U+118E1", "U+118E2", "U+118E3", "U+118E4", "U+118E5", "U+118E6", "U+118E7", "U+118E8", "U+118E9">>,
      <<"U+11950", "U+11951", "U+11952", "U+11953", "U+11954", "U+11955", "U+11956", "U+11957", "U+11958", "U+11959">>,
      <<"U+11C50", "U+11C51", "U+11C52", "U+11C53", "U+11C54", "U+11C55", "U+11C56", "U+11C57", "U+11C58", "U+11C59">>,
      <<"U+11D50", "U+11D51", "U+11D52", "U+11D53", "U+11D54", "U+11D55", "U+11D56", "U+11D57", "U+11D58", "U+11D59">>,
      <<"U+11DA0", "U+11DA1", "U+11DA2", "U+11DA3", "U+11DA4", "U+11DA5", "U+11DA6", "U+11DA7", "U+11DA8", "U+11DA9">>,
      <<"U+16A60", "U+16A61", "U+16A62", "U+16A63", "U+16A64", "U+16A65", "U+16A66", "U+16A67", "U+16A68", "U+16A69">>,
      <<"U+16AC0", "U+16AC1", "U+16AC2", "U+16AC3", "U+16AC4", "U+16AC5", "U+16AC6", "U+16AC7", "U+16AC8", "U+16AC9">>,
      <<"U+16B50", "U+16B51", "U+16B52", "U+16B53", "U+16B54", "U+16B55", "U+16B56", "U+16B57", "U+16B58", "U+16B59">>,
      <<"U+1D7CE", "U+1D7CF", "U+1D7D0", "U+1D7D1", "U+1D7D2", "U+1D7D3", "U+1D7D4", "U+1D7D5", "U+1D7D6", "U+1D7D7">>,
      <<"U+1D7D8", "U+1D7D9", "U+1D7DA", "U+1D7DB", "U+1D7DC", "U+1D7DD", "U+1D7DE", "U+1D7DF", "U+1D7E0", "U+1D7E1">>,
      <<"U+1D7E2", "U+1D7E3", "U+1D7E4", "U+1D7E5", "U+1D7E6", "U+1D7E7", "U+1D7E8", "U+1D7E9", "U+1D7EA", "U+1D7EB">>,
      <<"U+1D7EC", "U+1D7ED", "U+1D7EE", "U+1D7EF", "U+1D7F0", "U+1D7F1", "U+1D7F2", "U+1D7F3", "U+1D7F4", "U+1D7F5">>,
      <<"U+1D7F6", "U+1D7F7", "U+1D7F8", "U+1D7F9", "U+1D7FA", "U+1D7FB", "U+1D7FC", "U+1D7FD", "U+1D7FE", "U+1D7FF">>,
      <<"U+1E140", "U+1E141", "U+1E142", "U+1E143", "U+1E144", "U+1E145", "U+1E146", "U+1E147", "U+1E148", "U+1E149">>,
      <<"U+1E2F0", "U+1E2F1", "U+1E2F2", "U+1E2F3", "U+1E2F4", "U+1E2F5", "U+1E2F6", "U+1E2F7", "U+1E2F8", "U+1E2F9">>,
      <<"U+1E950", "U+1E951", "U+1E952", "U+1E953", "U+1E954", "U+1E955", "U+1E956", "U+1E957", "U+1E958", "U+1E959">>,
      <<"U+1FBF0", "U+1FBF1", "U+1FBF2", "U+1FBF3", "U+1FBF4", "U+1FBF5", "U+1FBF6", "U+1FBF7", "U+1FBF8", "U+1FBF9">>>>

DecimalDigits ==
    UNION {{DecimalDigitRows[r][k] : k \in 1..10} : r \in DOMAIN DecimalDigitRows}

\* the value int() gives each decimal digit
DigitValues ==
    [c \in DecimalDigits |->
       (CHOOSE k \in 1..10 : \E r \in DOMAIN DecimalDigitRows : DecimalDigitRows[r][k] = c) - 1]

IsDigit(c) == c \in DecimalDigits

DigitVal(c) == DigitValues[c]

\* the control characters that have no escape in a string: vertical tab
\* (0x0B), the file, group, record and unit separators (0x1C to 0x1F), next
\* line (0x85) and the no-break space (0xA0)
ControlWhitespace == {"", "", "", "", "", "", " "}

\* the whitespace above U+00FF: OGHAM SPACE MARK, the spaces U+2000 to
\* U+200A, the line and paragraph separators, the narrow no-break space, the
\* medium mathematical space and the ideographic space
WideWhitespace ==
    {"U+1680", "U+2000", "U+2001", "U+2002", "U+2003", "U+2004", "U+2005",
     "U+2006", "U+2007", "U+2008", "U+2009", "U+200A", "U+2028", "U+2029",
     "U+202F", "U+205F", "U+3000"}

\* the characters str.isspace() is true of: what \s of a str pattern matches
\* and what str.strip() removes
Whitespace == {" ", "\t", "\n", "\r", "\f"} \cup ControlWhitespace \cup WideWhitespace

\* str(n) for a natural number n, as in f"{duration_days} D"
RECURSIVE IntToStr(_)
IntToStr(n) ==
    IF n < 10 THEN <<Digits[n + 1]>>
    ELSE IntToStr(n \div 10) \o <<Digits[(n % 10) + 1]>>

\* zero padding to a minimum width, as in %m, %d, %H ... and {counter:02d}
RECURSIVE ZeroPad(_, _)
ZeroPad(s, w) == IF Len(s) >= w THEN s ELSE ZeroPad(<<"0">> \o s, w)

Fmt(n, w) == ZeroPad(IntToStr(n), w)

(***************************************************************************)
(* The proleptic Gregorian calendar of datetime.                           *)
(***************************************************************************)
is_leap(y) == y % 4 = 0 /\ (y % 100 # 0 \/ y % 400 = 0)

days_in_month(y, m) ==
    IF m = 2 THEN (IF is_leap(y) THEN 29 ELSE 28)
    ELSE IF m \in {4, 6, 9, 11} THEN 30 ELSE 31

days_before_year(y) ==
    LET p == y - 1 IN p * 365 + p \div 4 - p \div 100 + p \div 400

RECURSIVE days_before_month(_, _)
days_before_month(y, m) ==
    IF m = 1 THEN 0
    ELSE days_before_month(y, m - 1) + days_in_month(y, m - 1)

\* date.toordinal(): 1 for 0001-01-01
toordinal(dt) ==
    days_before_year(dt.year) + days_before_month(dt.year, dt.month) + dt.day

\* seconds since midnight
seconds_of_day(dt) == dt.hour * 3600 + dt.minute * 60 + dt.second

\* mutant of datetime_gt: compares the calendar dates only
datetime_gt_dates_only(a, b) == toordinal(a) > toordinal(b)

\* a > b on naive datetimes
datetime_gt(a, b) ==
    \/ toordinal(a) > toordinal(b)
    \/ toordinal(a) = toordinal(b) /\ seconds_of_day(a) > seconds_of_day(b)

\* (end - start).days: a timedelta is normalised to 0 <= seconds < 86400, so
\* a negative difference of the times of day borrows one day
timedelta_days(end_dt, start_dt) ==
    toordinal(end_dt) - toordinal(start_dt)
      - (IF seconds_of_day(end_dt) < seconds_of_day(start_dt) THEN 1 ELSE 0)

\* datetime(...) constructor: ValueError outside these ranges
datetime_valid(f) ==
    /\ f.year \in 1..9999
    /\ f.month \in 1..12
    /\ f.day \in 1..days_in_month(f.year, f.month)
    /\ f.hour \in 0..23
    /\ f.minute \in 0..59
    /\ f.second \in 0..59

\* dt + timedelta(days=1); OverflowError past 9999-12-31
add_one_day(dt) ==
    IF dt.day < days_in_month(dt.year, dt.month)
    THEN [tag |-> "dt", dt |-> [dt EXCEPT !.day = dt.day + 1]]
    ELSE IF dt.month < 12
    THEN [tag |-> "dt", dt |-> [dt EXCEPT !.month = dt.month + 1, !.day = 1]]
    ELSE IF dt.year < 9999
    THEN [tag |-> "dt",
          dt |-> [dt EXCEPT !.year = dt.year + 1, !.month = 1, !.day = 1]]
    ELSE [tag |-> "OverflowError"]

\* %Y of strftime.  datetime.strftime hands the format to the C library, and
\* the builds differ for a year below 1000: four digits with leading zeros
\* (pads_year), or the digits of the year alone as glibc writes them
strftime_Y(year, pads_year) == IF pads_year THEN Fmt(year, 4) ELSE IntToStr(year)

\* the two behaviours of %Y a build can have
YearPadding == BOOLEAN

\* dt.strftime('%Y%m%d %H:%M:%S')
strftime_ibkr(dt, pads_year) ==
    strftime_Y(dt.year, pads_year) \o Fmt(dt.month, 2) \o Fmt(dt.day, 2) \o <<" ">>
      \o Fmt(dt.hour, 2) \o <<":">> \o Fmt(dt.minute, 2) \o <<":">>
      \o Fmt(dt.second, 2)

\* dt.strftime("%Y%m%d_%H%M%S") of the clock, whose year has four digits
strftime_suffix(dt) ==
    Fmt(dt.year, 4) \o Fmt(dt.month, 2) \o Fmt(dt.day, 2) \o <<"_">>
      \o Fmt(dt.hour, 2) \o Fmt(dt.minute, 2) \o Fmt(dt.second, 2)

(***************************************************************************)
(* datetime.strptime.  A format is a sequence of tokens: a directive       *)
(* ("Y", "m", "d", "H", "M", "S"), a literal character, or " " which       *)
(* matches one or more whitespace characters (the format's blank is        *)
(* compiled to \s+).  A directive tries its two-character alternatives     *)
(* before its one-character alternative and backtracks, and the whole      *)
(* string has to be consumed.  \d of a directive matches every decimal     *)
(* digit, a digit or a range written in its expression only that of ASCII. *)
(***************************************************************************)
FormatHMS == <<"Y", "-", "m", "-", "d", " ", "H", ":", "M", ":", "S">>
FormatHM == <<"Y", "-", "m", "-", "d", " ", "H", ":", "M">>
FormatD == <<"Y", "-", "m", "-", "d">>

IsDirective(t) == t \in {"Y", "m", "d", "H", "M", "S"}

FieldOf(t) ==
    CASE t = "Y" -> "year" [] t = "m" -> "month" [] t = "d" -> "day"
      [] t = "H" -> "hour" [] t = "M" -> "minute" [] t = "S" -> "second"

\* the two-character alternatives of a directive's regular expression, on
\* the characters a and b:
\*   %m  1[0-2]|0[1-9]        %d  3[0-1]|[1-2]\d|0[1-9]      %H  2[0-3]|[0-1]\d
\*   %M  [0-5]\d              %S  6[0-1]|[0-5]\d
TwoCharacters(t, a, b) ==
    CASE t = "m" -> (a = "1" /\ InRange(b, 0, 2)) \/ (a = "0" /\ InRange(b, 1, 9))
      [] t = "d" -> \/ a = "3" /\ InRange(b, 0, 1)
                    \/ InRange(a, 1, 2) /\ IsDigit(b)
                    \/ a = "0" /\ InRange(b, 1, 9)
      [] t = "H" -> (a = "2" /\ InRange(b, 0, 3)) \/ (InRange(a, 0, 1) /\ IsDigit(b))
      [] t = "M" -> InRange(a, 0, 5) /\ IsDigit(b)
      [] t = "S" -> (a = "6" /\ InRange(b, 0, 1)) \/ (InRange(a, 0, 5) /\ IsDigit(b))

\* the one-character alternative: [1-9] of %m and %d, \d of %H, %M and %S
OneCharacter(t, a) == IF t \in {"m", "d"} THEN InRange(a, 1, 9) ELSE IsDigit(a)

DigitsAt(s, i, n) == i + n - 1 <= Len(s) /\ \A k \in i..(i + n - 1) : IsDigit(s[k])

RECURSIVE NumAt(_, _, _)
NumAt(s, i, n) ==
    IF n = 0 THEN 0 ELSE NumAt(s, i, n - 1) * 10 + DigitVal(s[i + n - 1])

\* the end of the longest run of whitespace from position i: the match of \s+
RECURSIVE BlanksEnd(_, _)
BlanksEnd(s, i) == IF i <= Len(s) /\ s[i] \in Whitespace THEN BlanksEnd(s, i + 1) ELSE i

NoMatch == [found |-> FALSE]

ZeroFields ==
    [year |-> 1900, month |-> 1, day |-> 1, hour |-> 0, minute |-> 0, second |-> 0]

\* the ways token t can match at position i, in the order the regular
\* expression tries them: each gives the next position and the fields so far
Alternatives(s, i, t, acc) ==
    IF t = "Y" THEN
        IF DigitsAt(s, i, 4)
        THEN <<[pos |-> i + 4, fields |-> [acc EXCEPT !.year = NumAt(s, i, 4)]]>>
        ELSE <<>>
    ELSE IF IsDirective(t) THEN
        (IF i + 1 <= Len(s) /\ TwoCharacters(t, s[i], s[i + 1])
         THEN <<[pos |-> i + 2, fields |-> [acc EXCEPT ![FieldOf(t)] = NumAt(s, i, 2)]]>>
         ELSE <<>>)
        \o (IF i <= Len(s) /\ OneCharacter(t, s[i])
            THEN <<[pos |-> i + 1, fields |-> [acc EXCEPT ![FieldOf(t)] = NumAt(s, i, 1)]]>>
            ELSE <<>>)
        \* the day directive also accepts a blank followed by [1-9]
        \o (IF t = "d" /\ i + 1 <= Len(s) /\ s[i] = " " /\ InRange(s[i + 1], 1, 9)
            THEN <<[pos |-> i + 2, fields |-> [acc EXCEPT !.day = NumAt(s, i + 1, 1)]]>>
            ELSE <<>>)
    \* a blank of the format is compiled to \s+
    ELSE IF t = " " THEN
        IF i <= Len(s) /\ s[i] \in Whitespace
        THEN <<[pos |-> BlanksEnd(s, i), fields |-> acc]>>
        ELSE <<>>
    ELSE
        IF i <= Len(s) /\ s[i] = t THEN <<[pos |-> i + 1, fields |-> acc]>> ELSE <<>>

\* the first result that matched, in the order of the alternatives
FirstFound(rest) ==
    IF \E k \in 1..Len(rest) : rest[k].found
    THEN rest[CHOOSE k \in 1..Len(rest) :
                rest[k].found /\ \A m \in 1..(k - 1) : ~rest[m].found]
    ELSE NoMatch

\* re.match of the compiled format at position i of s, from token j on: the
\* first alternative of token j after which the rest of the format matches
RECURSIVE MatchFrom(_, _, _, _, _)
RECURSIVE MatchRest(_, _, _, _)
MatchRest(s, fmt, j, tries) ==
    [k \in 1..Len(tries) |-> MatchFrom(s, tries[k].pos, fmt, j, tries[k].fields)]

MatchFrom(s, i, fmt, j, acc) ==
    IF j > Len(fmt) THEN [found |-> TRUE, end |-> i, fields |-> acc]
    ELSE FirstFound(MatchRest(s, fmt, j + 1, Alternatives(s, i, fmt[j], acc)))

\* the datetime built from a match that consumed the whole string
MatchedDatetime(date_str, m) ==
    IF m.found /\ m.end = Len(date_str) + 1 /\ datetime_valid(m.fields)
    THEN [tag |-> "dt", dt |-> m.fields]
    ELSE [tag |-> "ValueError"]

\* datetime.strptime(date_str, fmt): a datetime or ValueError
strptime(date_str, fmt) ==
    MatchedDatetime(date_str, MatchFrom(date_str, 1, fmt, 1, ZeroFields))

\* the loop over the formats: the first that parsed, else the given failure
FirstParsed(hms, hm, d, failure) ==
    IF hms.tag = "dt" THEN hms
    ELSE IF hm.tag = "dt" THEN hm
    ELSE IF d.tag = "dt" THEN d
    ELSE failure

\* mutant of parse_date_string: a string no format parses counts as absent
parse_date_string_lenient(date_str) ==
    IF date_str = <<"None">> \/ date_str = <<>> THEN [tag |-> "None"]
    ELSE FirstParsed(strptime(date_str, FormatHMS), strptime(date_str, FormatHM),
                     strptime(date_str, FormatD), [tag |-> "None"])

\* parse_date_string: None for a falsy argument, else the first format that
\* parses, else ValueError("Invalid date format ...")
parse_date_string(date_str) ==
    IF date_str = <<"None">> \/ date_str = <<>> THEN [tag |-> "None"]
    ELSE FirstParsed(strptime(date_str, FormatHMS), strptime(date_str, FormatHM),
                     strptime(date_str, FormatD), [tag |-> "ValueError"])

\* dt.time() != datetime.min.time()
time_is_not_midnight(dt) == ~(dt.hour = 0 /\ dt.minute = 0 /\ dt.second = 0)

\* format_ibkr_datetime (include_extended_hours is its closure variable;
\* pads_year is the build's %Y)
format_ibkr_datetime(dt, has_time_component, include_extended_hours, pads_year) ==
    IF has_time_component THEN [tag |-> "str", str |-> strftime_ibkr(dt, pads_year)]
    ELSE IF include_extended_hours THEN
        LET next_day == add_one_day(dt) IN
        IF next_day.tag = "OverflowError" THEN [tag |-> "OverflowError"]
        ELSE [tag |-> "str",
              str |-> strftime_ibkr([next_day.dt EXCEPT !.hour = 2, !.minute = 0,
                                                        !.second = 0], pads_year)]
    ELSE [tag |-> "str",
          str |-> strftime_ibkr([dt EXCEPT !.hour = 16, !.minute = 0, !.second = 0],
                                pads_year)]

Raised(exc, msg) ==
    [status |-> exc, message |-> msg, end_datetime_str |-> <<>>,
     duration_str |-> <<>>, mode |-> "none"]

Returned(fmt, duration_str, mode) ==
    IF fmt.tag = "OverflowError" THEN Raised("OverflowError", "date value out of range")
    ELSE [status |-> "ok", message |-> "", end_datetime_str |-> fmt.str,
          duration_str |-> duration_str, mode |-> mode]

\* lines 232-238: the duration string for a number of days
duration_for_days(duration_days) ==
    IF duration_days = 1 THEN <<"1", " ", "D">>
    ELSE IF duration_days <= 365 THEN IntToStr(duration_days) \o <<" ", "D">>
    ELSE IntToStr(duration_days \div 365) \o <<" ", "Y">>

\* Case 1 duration: both dates given
date_range_duration(start_dt, end_dt) ==
    duration_for_days(timedelta_days(end_dt, start_dt) + 1)

\* Case 2 end anchor: only the start date given
single_day_anchor(start_dt, include_extended_hours) ==
    IF ~time_is_not_midnight(start_dt) /\ ~include_extended_hours
    THEN [dt |-> [start_dt EXCEPT !.hour = 16, !.minute = 0, !.second = 0],
          has_time |-> TRUE]
    ELSE [dt |-> start_dt, has_time |-> time_is_not_midnight(start_dt)]

\* line 224: the condition that raises "Start date cannot be after end date"
start_after_end(start_date, end_date) ==
    start_date.tag = "dt" /\ end_date.tag = "dt"
      /\ datetime_gt(start_date.dt, end_date.dt)

\* mutant of duration_only_end: the end stays '' ("most recent") for regular hours
duration_only_end_empty(today, include_extended_hours, pads_year) ==
    IF include_extended_hours
    THEN format_ibkr_datetime(today, FALSE, include_extended_hours, pads_year)
    ELSE [tag |-> "str", str |-> <<>>]

\* Case 4 end anchor: neither date given, both branches format today
duration_only_end(today, include_extended_hours, pads_year) ==
    IF include_extended_hours
    THEN format_ibkr_datetime(today, FALSE, include_extended_hours, pads_year)
    ELSE format_ibkr_datetime(today, FALSE, include_extended_hours, pads_year)

\* lines 224-291 of process_date_arguments, on the parsed dates
resolve_dates(start_date, end_date, default_duration, include_extended_hours, today, pads_year) ==
    IF start_date.tag = "ValueError" THEN Raised("ValueError", "invalid_format")
    ELSE IF end_date.tag = "ValueError" THEN Raised("ValueError", "invalid_format")
    ELSE IF start_after_end(start_date, end_date)
    THEN Raised("ValueError", "start_after_end")
    ELSE IF start_date.tag = "dt" /\ end_date.tag = "dt" THEN
        Returned(format_ibkr_datetime(end_date.dt, time_is_not_midnight(end_date.dt),
                                      include_extended_hours, pads_year),
                 date_range_duration(start_date.dt, end_date.dt), "date_range")
    ELSE IF start_date.tag = "dt" THEN
        Returned(format_ibkr_datetime(
                     single_day_anchor(start_date.dt, include_extended_hours).dt,
                     single_day_anchor(start_date.dt, include_extended_hours).has_time,
                     include_extended_hours, pads_year),
                 <<"1", " ", "D">>, "single_day")
    ELSE IF end_date.tag = "dt" THEN
        Returned(format_ibkr_datetime(end_date.dt, time_is_not_midnight(end_date.dt),
                                      include_extended_hours, pads_year),
                 default_duration, "duration_with_end")
    ELSE
        Returned(duration_only_end(today, include_extended_hours, pads_year),
                 default_duration, "duration_only")

\* process_date_arguments; today is the value datetime.now() returns and
\* pads_year the %Y of the build
process_date_arguments(start_date_str, end_date_str, default_duration, include_extended_hours, today, pads_year) ==
    resolve_dates(parse_date_string(start_date_str), parse_date_string(end_date_str),
                  default_duration, include_extended_hours, today, pads_year)

(***************************************************************************)
(* Module constants of get_hist.py and small string helpers.               *)
(***************************************************************************)
\* a value distinct from every string
None == <<"None">>

HISTORY_DURATION == <<"1", " ", "Y">>
TARGET_SYMBOL == <<"S", "P", "Y">>
SECURITY_TYPE == <<"S", "T", "K">>
FUTURE_LAST_TRADE_DATE_OR_CONTRACT_MONTH == <<>>

\* the characters str.upper() changes (Unicode 14.0), each with the text it
\* becomes, which has up to three characters
UpperPairs ==
    <<<<"a", <<"A">>>>, <<"b", <<"B">>>>, <<"c", <<"C">>>>, <<"d", <<"D">>>>, <<"e", <<"E">>>>,
      <<"f", <<"F">>>>, <<"g", <<"G">>>>, <<"h", <<"H">>>>, <<"i", <<"I">>>>, <<"j", <<"J">>>>,
      <<"k", <<"K">>>>, <<"l", <<"L">>>>, <<"m", <<"M">>>>, <<"n", <<"N">>>>, <<"o", <<"O">>>>,
      <<"p", <<"P">>>>, <<"q", <<"Q">>>>, <<"r", <<"R">>>>, <<"s", <<"S">>>>, <<"t", <<"T">>>>,
      <<"u", <<"U">>>>, <<"v", <<"V">>>>, <<"w", <<"W">>>>, <<"x", <<"X">>>>, <<"y", <<"Y">>>>,
      <<"z", <<"Z">>>>, <<"µ", <<"U+039C">>>>, <<"ß", <<"S", "S">>>>, <<"à", <<"À">>>>,
      <<"á", <<"Á">>>>, <<"â", <<"Â">>>>, <<"ã", <<"Ã">>>>, <<"ä", <<"Ä">>>>, <<"å", <<"Å">>>>,
      <<"æ", <<"Æ">>>>, <<"ç", <<"Ç">>>>, <<"è", <<"È">>>>, <<"é", <<"É">>>>, <<"ê", <<"Ê">>>>,
      <<"ë", <<"Ë">>>>, <<"ì", <<"Ì">>>>, <<"í", <<"Í">>>>, <<"î", <<"Î">>>>, <<"ï", <<"Ï">>>>,
      <<"ð", <<"Ð">>>>, <<"ñ", <<"Ñ">>>>, <<"ò", <<"Ò">>>>, <<"ó", <<"Ó">>>>, <<"ô", <<"Ô">>>>,
      <<"õ", <<"Õ">>>>, <<"ö", <<"Ö">>>>, <<"ø", <<"Ø">>>>, <<"ù", <<"Ù">>>>, <<"ú", <<"Ú">>>>,
      <<"û", <<"Û">>>>, <<"ü", <<"Ü">>>>, <<"ý", <<"Ý">>>>, <<"þ", <<"Þ">>>>,
      <<"ÿ", <<"U+0178">>>>, <<"U+0101", <<"U+0100">>>>, <<"U+0103", <<"U+0102">>>>,
      <<"U+0105", <<"U+0104">>>>, <<"U+0107", <<"U+0106">>>>, <<"U+0109", <<"U+0108">>>>,
      <<"U+010B", <<"U+010A">>>>, <<"U+010D", <<"U+010C">>>>, <<"U+010F", <<"U+010E">>>>,
      <<"U+0111", <<"U+0110">>>>, <<"U+0113", <<"U+0112">>>>, <<"U+0115", <<"U+0114">>>>,
      <<"U+0117", <<"U+0116">>>>, <<"U+0119", <<"U+0118">>>>, <<"U+011B", <<"U+011A">>>>,
      <<"U+011D", <<"U+011C">>>>, <<"U+011F", <<"U+011E">>>>, <<"U+0121", <<"U+0120">>>>,
      <<"U+0123", <<"U+0122">>>>, <<"U+0125", <<"U+0124">>>>, <<"U+0127", <<"U+0126">>>>,
      <<"U+0129", <<"U+0128">>>>, <<"U+012B", <<"U+012A">>>>, <<"U+012D", <<"U+012C">>>>,
      <<"U+012F", <<"U+012E">>>>, <<"U+0131", <<"I">>>>, <<"U+0133", <<"U+0132">>>>,
      <<"U+0135", <<"U+0134">>>>, <<"U+0137", <<"U+0136">>>>, <<"U+013A", <<"U+0139">>>>,
      <<"U+013C", <<"U+013B">>>>, <<"U+013E", <<"U+013D">>>>, <<"U+0140", <<"U+013F">>>>,
      <<"U+0142", <<"U+0141">>>>, <<"U+0144", <<"U+0143">>>>, <<"U+0146", <<"U+0145">>>>,
      <<"U+0148", <<"U+0147">>>>, <<"U+0149", <<"U+02BC", "N">>>>, <<"U+014B", <<"U+014A">>>>,
      <<"U+014D", <<"U+014C">>>>, <<"U+014F", <<"U+014E">>>>, <<"U+0151", <<"U+0150">>>>,
      <<"U+0153", <<"U+0152">>>>, <<"U+0155", <<"U+0154">>>>, <<"U+0157", <<"U+0156">>>>,
      <<"U+0159", <<"U+0158">>>>, <<"U+015B", <<"U+015A">>>>, <<"U+015D", <<"U+015C">>>>,
      <<"U+015F", <<"U+015E">>>>, <<"U+0161", <<"U+0160">>>>, <<"U+0163", <<"U+0162">>>>,
      <<"U+0165", <<"U+0164">>>>, <<"U+0167", <<"U+0166">>>>, <<"U+0169", <<"U+0168">>>>,
      <<"U+016B", <<"U+016A">>>>, <<"U+016D", <<"U+016C">>>>, <<"U+016F", <<"U+016E">>>>,
      <<"U+0171", <<"U+0170">>>>, <<"U+0173", <<"U+0172">>>>, <<"U+0175", <<"U+0174">>>>,
      <<"U+0177", <<"U+0176">>>>, <<"U+017A", <<"U+0179">>>>, <<"U+017C", <<"U+017B">>>>,
      <<"U+017E", <<"U+017D">>>>, <<"U+017F", <<"S">>>>, <<"U+0180", <<"U+0243">>>>,
      <<"U+0183", <<"U+0182">>>>, <<"U+0185", <<"U+0184">>>>, <<"U+0188", <<"U+0187">>>>,
      <<"U+018C", <<"U+018B">>>>, <<"U+0192", <<"U+0191">>>>, <<"U+0195", <<"U+01F6">>>>,
      <<"U+0199", <<"U+0198">>>>, <<"U+019A", <<"U+023D">>>>, <<"U+019E", <<"U+0220">>>>,
      <<"U+01A1", <<"U+01A0">>>>, <<"U+01A3", <<"U+01A2">>>>, <<"U+01A5", <<"U+01A4">>>>,
      <<"U+01A8", <<"U+01A7">>>>, <<"U+01AD", <<"U+01AC">>>>, <<"U+01B0", <<"U+01AF">>>>,
      <<"U+01B4", <<"U+01B3">>>>, <<"U+01B6", <<"U+01B5">>>>, <<"U+01B9", <<"U+01B8">>>>,
      <<"U+01BD", <<"U+01BC">>>>, <<"U+01BF", <<"U+01F7">>>>, <<"U+01C5", <<"U+01C4">>>>,
      <<"U+01C6", <<"U+01C4">>>>, <<"U+01C8", <<"U+01C7">>>>, <<"U+01C9", <<"U+01C7">>>>,
      <<"U+01CB", <<"U+01CA">>>>, <<"U+01CC", <<"U+01CA">>>>, <<"U+01CE", <<"U+01CD">>>>,
      <<"U+01D0", <<"U+01CF">>>>, <<"U+01D2", <<"U+01D1">>>>, <<"U+01D4", <<"U+01D3">>>>,
      <<"U+01D6", <<"U+01D5">>>>, <<"U+01D8", <<"U+01D7">>>>, <<"U+01DA", <<"U+01D9">>>>,
      <<"U+01DC", <<"U+01DB">>>>, <<"U+01DD", <<"U+018E">>>>, <<"U+01DF", <<"U+01DE">>>>,
      <<"U+01E1", <<"U+01E0">>>>, <<"U+01E3", <<"U+01E2">>>>, <<"U+01E5", <<"U+01E4">>>>,
      <<"U+01E7", <<"U+01E6">>>>, <<"U+01E9", <<"U+01E8">>>>, <<"U+01EB", <<"U+01EA">>>>,
      <<"U+01ED", <<"U+01EC">>>>, <<"U+01EF", <<"U+01EE">>>>, <<"U+01F0", <<"J", "U+030C">>>>,
      <<"U+01F2", <<"U+01F1">>>>, <<"U+01F3", <<"U+01F1">>>>, <<"U+01F5", <<"U+01F4">>>>,
      <<"U+01F9", <<"U+01F8">>>>, <<"U+01FB", <<"U+01FA">>>>, <<"U+01FD", <<"U+01FC">>>>,
      <<"U+01FF", <<"U+01FE">>>>, <<"U+0201", <<"U+0200">>>>, <<"U+0203", <<"U+0202">>>>,
      <<"U+0205", <<"U+0204">>>>, <<"U+0207", <<"U+0206">>>>, <<"U+0209", <<"U+0208">>>>,
      <<"U+020B", <<"U+020A">>>>, <<"U+020D", <<"U+020C">>>>, <<"U+020F", <<"U+020E">>>>,
      <<"U+0211", <<"U+0210">>>>, <<"U+0213", <<"U+0212">>>>, <<"U+0215", <<"U+0214">>>>,
      <<"U+0217", <<"U+0216">>>>, <<"U+0219", <<"U+0218">>>>, <<"U+021B", <<"U+021A">>>>,
      <<"U+021D", <<"U+021C">>>>, <<"U+021F", <<"U+021E">>>>, <<"U+0223", <<"U+0222">>>>,
      <<"U+0225", <<"U+0224">>>>, <<"U+0227", <<"U+0226">>>>, <<"U+0229", <<"U+0228">>>>,
      <<"U+022B", <<"U+022A">>>>, <<"U+022D", <<"U+022C">>>>, <<"U+022F", <<"U+022E">>>>,
      <<"U+0231", <<"U+0230">>>>, <<"U+0233", <<"U+0232">>>>, <<"U+023C", <<"U+023B">>>>,
      <<"U+023F", <<"U+2C7E">>>>, <<"U+0240", <<"U+2C7F">>>>, <<"U+0242", <<"U+0241">>>>,
      <<"U+0247", <<"U+0246">>>>, <<"U+0249", <<"U+0248">>>>, <<"U+024B", <<"U+024A">>>>,
      <<"U+024D", <<"U+024C">>>>, <<"U+024F", <<"U+024E">>>>, <<"U+0250", <<"U+2C6F">>>>,
      <<"U+0251", <<"U+2C6D">>>>, <<"U+0252", <<"U+2C70">>>>, <<"U+0253", <<"U+0181">>>>,
      <<"U+0254", <<"U+0186">>>>, <<"U+0256", <<"U+0189">>>>, <<"U+0257", <<"U+018A">>>>,
      <<"U+0259", <<"U+018F">>>>, <<"U+025B", <<"U+0190">>>>, <<"U+025C", <<"U+A7AB">>>>,
      <<"U+0260", <<"U+0193">>>>, <<"U+0261", <<"U+A7AC">>>>, <<"U+0263", <<"U+0194">>>>,
      <<"U+0265", <<"U+A78D">>>>, <<"U+0266", <<"U+A7AA">>>>, <<"U+0268", <<"U+0197">>>>,
      <<"U+0269", <<"U+0196">>>>, <<"U+026A", <<"U+A7AE">>>>, <<"U+026B", <<"U+2C62">>>>,
      <<"U+026C", <<"U+A7AD">>>>, <<"U+026F", <<"U+019C">>>>, <<"U+0271", <<"U+2C6E">>>>,
      <<"U+0272", <<"U+019D">>>>, <<"U+0275", <<"U+019F">>>>, <<"U+027D", <<"U+2C64">>>>,
      <<"U+0280", <<"U+01A6">>>>, <<"U+0282", <<"U+A7C5">>>>, <<"U+0283", <<"U+01A9">>>>,
      <<"U+0287", <<"U+A7B1">>>>, <<"U+0288", <<"U+01AE">>>>, <<"U+0289", <<"U+0244">>>>,
      <<"U+028A", <<"U+01B1">>>>, <<"U+028B", <<"U+01B2">>>>, <<"U+028C", <<"U+0245">>>>,
      <<"U+0292", <<"U+01B7">>>>, <<"U+029D", <<"U+A7B2">>>>, <<"U+029E", <<"U+A7B0">>>>,
      <<"U+0345", <<"U+0399">>>>, <<"U+0371", <<"U+0370">>>>, <<"U+0373", <<"U+0372">>>>,
      <<"U+0377", <<"U+0376">>>>, <<"U+037B", <<"U+03FD">>>>, <<"U+037C", <<"U+03FE">>>>,
      <<"U+037D", <<"U+03FF">>>>, <<"U+0390", <<"U+0399", "U+0308", "U+0301">>>>,
      <<"U+03AC", <<"U+0386">>>>, <<"U+03AD", <<"U+0388">>>>, <<"U+03AE", <<"U+0389">>>>,
      <<"U+03AF", <<"U+038A">>>>, <<"U+03B0", <<"U+03A5", "U+0308", "U+0301">>>>,
      <<"U+03B1", <<"U+0391">>>>, <<"U+03B2", <<"U+0392">>>>, <<"U+03B3", <<"U+0393">>>>,
      <<"U+03B4", <<"U+0394">>>>, <<"U+03B5", <<"U+0395">>>>, <<"U+03B6", <<"U+0396">>>>,
      <<"U+03B7", <<"U+0397">>>>, <<"U+03B8", <<"U+0398">>>>, <<"U+03B9", <<"U+0399">>>>,
      <<"U+03BA", <<"U+039A">>>>, <<"U+03BB", <<"U+039B">>>>, <<"U+03BC", <<"U+039C">>>>,
      <<"U+03BD", <<"U+039D">>>>, <<"U+03BE", <<"U+039E">>>>, <<"U+03BF", <<"U+039F">>>>,
      <<"U+03C0", <<"U+03A0">>>>, <<"U+03C1", <<"U+03A1">>>>, <<"U+03C2", <<"U+03A3">>>>,
      <<"U+03C3", <<"U+03A3">>>>, <<"U+03C4", <<"U+03A4">>>>, <<"U+03C5", <<"U+03A5">>>>,
      <<"U+03C6", <<"U+03A6">>>>, <<"U+03C7", <<"U+03A7">>>>, <<"U+03C8", <<"U+03A8">>>>,
      <<"U+03C9", <<"U+03A9">>>>, <<"U+03CA", <<"U+03AA">>>>, <<"U+03CB", <<"U+03AB">>>>,
      <<"U+03CC", <<"U+038C">>>>, <<"U+03CD", <<"U+038E">>>>, <<"U+03CE", <<"U+038F">>>>,
      <<"U+03D0", <<"U+0392">>>>, <<"U+03D1", <<"U+0398">>>>, <<"U+03D5", <<"U+03A6">>>>,
      <<"U+03D6", <<"U+03A0">>>>, <<"U+03D7", <<"U+03CF">>>>, <<"U+03D9", <<"U+03D8">>>>,
      <<"U+03DB", <<"U+03DA">>>>, <<"U+03DD", <<"U+03DC">>>>, <<"U+03DF", <<"U+03DE">>>>,
      <<"U+03E1", <<"U+03E0">>>>, <<"U+03E3", <<"U+03E2">>>>, <<"U+03E5", <<"U+03E4">>>>,
      <<"U+03E7", <<"U+03E6">>>>, <<"U+03E9", <<"U+03E8">>>>, <<"U+03EB", <<"U+03EA">>>>,
      <<"U+03ED", <<"U+03EC">>>>, <<"U+03EF", <<"U+03EE">>>>, <<"U+03F0", <<"U+039A">>>>,
      <<"U+03F1", <<"U+03A1">>>>, <<"U+03F2", <<"U+03F9">>>>, <<"U+03F3", <<"U+037F">>>>,
      <<"U+03F5", <<"U+0395">>>>, <<"U+03F8", <<"U+03F7">>>>, <<"U+03FB", <<"U+03FA">>>>,
      <<"U+0430", <<"U+0410">>>>, <<"U+0431", <<"U+0411">>>>, <<"U+0432", <<"U+0412">>>>,
      <<"U+0433", <<"U+0413">>>>, <<"U+0434", <<"U+0414">>>>, <<"U+0435", <<"U+0415">>>>,
      <<"U+0436", <<"U+0416">>>>, <<"U+0437", <<"U+0417">>>>, <<"U+0438", <<"U+0418">>>>,
      <<"U+0439", <<"U+0419">>>>, <<"U+043A", <<"U+041A">>>>, <<"U+043B", <<"U+041B">>>>,
      <<"U+043C", <<"U+041C">>>>, <<"U+043D", <<"U+041D">>>>, <<"U+043E", <<"U+041E">>>>,
      <<"U+043F", <<"U+041F">>>>, <<"U+0440", <<"U+0420">>>>, <<"U+0441", <<"U+0421">>>>,
      <<"U+0442", <<"U+0422">>>>, <<"U+0443", <<"U+0423">>>>, <<"U+0444", <<"U+0424">>>>,
      <<"U+0445", <<"U+0425">>>>, <<"U+0446", <<"U+0426">>>>, <<"U+0447", <<"U+0427">>>>,
      <<"U+0448", <<"U+0428">>>>, <<"U+0449", <<"U+0429">>>>, <<"U+044A", <<"U+042A">>>>,
      <<"U+044B", <<"U+042B">>>>, <<"U+044C", <<"U+042C">>>>, <<"U+044D", <<"U+042D">>>>,
      <<"U+044E", <<"U+042E">>>>, <<"U+044F", <<"U+042F">>>>, <<"U+0450", <<"U+0400">>>>,
      <<"U+0451", <<"U+0401">>>>, <<"U+0452", <<"U+0402">>>>, <<"U+0453", <<"U+0403">>>>,
      <<"U+0454", <<"U+0404">>>>, <<"U+0455", <<"U+0405">>>>, <<"U+0456", <<"U+0406">>>>,
      <<"U+0457", <<"U+0407">>>>, <<"U+0458", <<"U+0408">>>>, <<"U+0459", <<"U+0409">>>>,
      <<"U+045A", <<"U+040A">>>>, <<"U+045B", <<"U+040B">>>>, <<"U+045C", <<"U+040C">>>>,
      <<"U+045D", <<"U+040D">>>>, <<"U+045E", <<"U+040E">>>>, <<"U+045F", <<"U+040F">>>>,
      <<"U+0461", <<"U+0460">>>>, <<"U+0463", <<"U+0462">>>>, <<"U+0465", <<"U+0464">>>>,
      <<"U+0467", <<"U+0466">>>>, <<"U+0469", <<"U+0468">>>>, <<"U+046B", <<"U+046A">>>>,
      <<"U+046D", <<"U+046C">>>>, <<"U+046F", <<"U+046E">>>>, <<"U+0471", <<"U+0470">>>>,
      <<"U+0473", <<"U+0472">>>>, <<"U+0475", <<"U+0474">>>>, <<"U+0477", <<"U+0476">>>>,
      <<"U+0479", <<"U+0478">>>>, <<"U+047B", <<"U+047A">>>>, <<"U+047D", <<"U+047C">>>>,
      <<"U+047F", <<"U+047E">>>>, <<"U+0481", <<"U+0480">>>>, <<"U+048B", <<"U+048A">>>>,
      <<"U+048D", <<"U+048C">>>>, <<"U+048F", <<"U+048E">>>>, <<"U+0491", <<"U+0490">>>>,
      <<"U+0493", <<"U+0492">>>>, <<"U+0495", <<"U+0494">>>>, <<"U+0497", <<"U+0496">>>>,
      <<"U+0499", <<"U+0498">>>>, <<"U+049B", <<"U+049A">>>>, <<"U+049D", <<"U+049C">>>>,
      <<"U+049F", <<"U+049E">>>>, <<"U+04A1", <<"U+04A0">>>>, <<"U+04A3", <<"U+04A2">>>>,
      <<"U+04A5", <<"U+04A4">>>>, <<"U+04A7", <<"U+04A6">>>>, <<"U+04A9", <<"U+04A8">>>>,
      <<"U+04AB", <<"U+04AA">>>>, <<"U+04AD", <<"U+04AC">>>>, <<"U+04AF", <<"U+04AE">>>>,
      <<"U+04B1", <<"U+04B0">>>>, <<"U+04B3", <<"U+04B2">>>>, <<"U+04B5", <<"U+04B4">>>>,
      <<"U+04B7", <<"U+04B6">>>>, <<"U+04B9", <<"U+04B8">>>>, <<"U+04BB", <<"U+04BA">>>>,
      <<"U+04BD", <<"U+04BC">>>>, <<"U+04BF", <<"U+04BE">>>>, <<"U+04C2", <<"U+04C1">>>>,
      <<"U+04C4", <<"U+04C3">>>>, <<"U+04C6", <<"U+04C5">>>>, <<"U+04C8", <<"U+04C7">>>>,
      <<"U+04CA", <<"U+04C9">>>>, <<"U+04CC", <<"U+04CB">>>>, <<"U+04CE", <<"U+04CD">>>>,
      <<"U+04CF", <<"U+04C0">>>>, <<"U+04D1", <<"U+04D0">>>>, <<"U+04D3", <<"U+04D2">>>>,
      <<"U+04D5", <<"U+04D4">>>>, <<"U+04D7", <<"U+04D6">>>>, <<"U+04D9", <<"U+04D8">>>>,
      <<"U+04DB", <<"U+04DA">>>>, <<"U+04DD", <<"U+04DC">>>>, <<"U+04DF", <<"U+04DE">>>>,
      <<"U+04E1", <<"U+04E0">>>>, <<"U+04E3", <<"U+04E2">>>>, <<"U+04E5", <<"U+04E4">>>>,
      <<"U+04E7", <<"U+04E6">>>>, <<"U+04E9", <<"U+04E8">>>>, <<"U+04EB", <<"U+04EA">>>>,
      <<"U+04ED", <<"U+04EC">>>>, <<"U+04EF", <<"U+04EE">>>>, <<"U+04F1", <<"U+04F0">>>>,
      <<"U+04F3", <<"U+04F2">>>>, <<"U+04F5", <<"U+04F4">>>>, <<"U+04F7", <<"U+04F6">>>>,
      <<"U+04F9", <<"U+04F8">>>>, <<"U+04FB", <<"U+04FA">>>>, <<"U+04FD", <<"U+04FC">>>>,
      <<"U+04FF", <<"U+04FE">>>>, <<"U+0501", <<"U+0500">>>>, <<"U+0503", <<"U+0502">>>>,
      <<"U+0505", <<"U+0504">>>>, <<"U+0507", <<"U+0506">>>>, <<"U+0509", <<"U+0508">>>>,
      <<"U+050B", <<"U+050A">>>>, <<"U+050D", <<"U+050C">>>>, <<"U+050F", <<"U+050E">>>>,
      <<"U+0511", <<"U+0510">>>>, <<"U+0513", <<"U+0512">>>>, <<"U+0515", <<"U+0514">>>>,
      <<"U+0517", <<"U+0516">>>>, <<"U+0519", <<"U+0518">>>>, <<"U+051B", <<"U+051A">>>>,
      <<"U+051D", <<"U+051C">>>>, <<"U+051F", <<"U+051E">>>>, <<"U+0521", <<"U+0520">>>>,
      <<"U+0523", <<"U+0522">>>>, <<"U+0525", <<"U+0524">>>>, <<"U+0527", <<"U+0526">>>>,
      <<"U+0529", <<"U+0528">>>>, <<"U+052B", <<"U+052A">>>>, <<"U+052D", <<"U+052C">>>>,
      <<"U+052F", <<"U+052E">>>>, <<"U+0561", <<"U+0531">>>>, <<"U+0562", <<"U+0532">>>>,
      <<"U+0563", <<"U+0533">>>>, <<"U+0564", <<"U+0534">>>>, <<"U+0565", <<"U+0535">>>>,
      <<"U+0566", <<"U+0536">>>>, <<"U+0567", <<"U+0537">>>>, <<"U+0568", <<"U+0538">>>>,
      <<"U+0569", <<"U+0539">>>>, <<"U+056A", <<"U+053A">>>>, <<"U+056B", <<"U+053B">>>>,
      <<"U+056C", <<"U+053C">>>>, <<"U+056D", <<"U+053D">>>>, <<"U+056E", <<"U+053E">>>>,
      <<"U+056F", <<"U+053F">>>>, <<"U+0570", <<"U+0540">>>>, <<"U+0571", <<"U+0541">>>>,
      <<"U+0572", <<"U+0542">>>>, <<"U+0573", <<"U+0543">>>>, <<"U+0574", <<"U+0544">>>>,
      <<"U+0575", <<"U+0545">>>>, <<"U+0576", <<"U+0546">>>>, <<"U+0577", <<"U+0547">>>>,
      <<"U+0578", <<"U+0548">>>>, <<"U+0579", <<"U+0549">>>>, <<"U+057A", <<"U+054A">>>>,
      <<"U+057B", <<"U+054B">>>>, <<"U+057C", <<"U+054C">>>>, <<"U+057D", <<"U+054D">>>>,
      <<"U+057E", <<"U+054E">>>>, <<"U+057F", <<"U+054F">>>>, <<"U+0580", <<"U+0550">>>>,
      <<"U+0581", <<"U+0551">>>>, <<"U+0582", <<"U+0552">>>>, <<"U+0583", <<"U+0553">>>>,
      <<"U+0584", <<"U+0554">>>>, <<"U+0585", <<"U+0555">>>>, <<"U+0586", <<"U+0556">>>>,
      <<"U+0587", <<"U+0535", "U+0552">>>>, <<"U+10D0", <<"U+1C90">>>>, <<"U+10D1", <<"U+1C91">>>>,
      <<"U+10D2", <<"U+1C92">>>>, <<"U+10D3", <<"U+1C93">>>>, <<"U+10D4", <<"U+1C94">>>>,
      <<"U+10D5", <<"U+1C95">>>>, <<"U+10D6", <<"U+1C96">>>>, <<"U+10D7", <<"U+1C97">>>>,
      <<"U+10D8", <<"U+1C98">>>>, <<"U+10D9", <<"U+1C99">>>>, <<"U+10DA", <<"U+1C9A">>>>,
      <<"U+10DB", <<"U+1C9B">>>>, <<"U+10DC", <<"U+1C9C">>>>, <<"U+10DD", <<"U+1C9D">>>>,
      <<"U+10DE", <<"U+1C9E">>>>, <<"U+10DF", <<"U+1C9F">>>>, <<"U+10E0", <<"U+1CA0">>>>,
      <<"U+10E1", <<"U+1CA1">>>>, <<"U+10E2", <<"U+1CA2">>>>, <<"U+10E3", <<"U+1CA3">>>>,
      <<"U+10E4", <<"U+1CA4">>>>, <<"U+10E5", <<"U+1CA5">>>>, <<"U+10E6", <<"U+1CA6">>>>,
      <<"U+10E7", <<"U+1CA7">>>>, <<"U+10E8", <<"U+1CA8">>>>, <<"U+10E9", <<"U+1CA9">>>>,
      <<"U+10EA", <<"U+1CAA">>>>, <<"U+10EB", <<"U+1CAB">>>>, <<"U+10EC", <<"U+1CAC">>>>,
      <<"U+10ED", <<"U+1CAD">>>>, <<"U+10EE", <<"U+1CAE">>>>, <<"U+10EF", <<"U+1CAF">>>>,
      <<"U+10F0", <<"U+1CB0">>>>, <<"U+10F1", <<"U+1CB1">>>>, <<"U+10F2", <<"U+1CB2">>>>,
      <<"U+10F3", <<"U+1CB3">>>>, <<"U+10F4", <<"U+1CB4">>>>, <<"U+10F5", <<"U+1CB5">>>>,
      <<"U+10F6", <<"U+1CB6">>>>, <<"U+10F7", <<"U+1CB7">>>>, <<"U+10F8", <<"U+1CB8">>>>,
      <<"U+10F9", <<"U+1CB9">>>>, <<"U+10FA", <<"U+1CBA">>>>, <<"U+10FD", <<"U+1CBD">>>>,
      <<"U+10FE", <<"U+1CBE">>>>, <<"U+10FF", <<"U+1CBF">>>>, <<"U+13F8", <<"U+13F0">>>>,
      <<"U+13F9", <<"U+13F1">>>>, <<"U+13FA", <<"U+13F2">>>>, <<"U+13FB", <<"U+13F3">>>>,
      <<"U+13FC", <<"U+13F4">>>>, <<"U+13FD", <<"U+13F5">>>>, <<"U+1C80", <<"U+0412">>>>,
      <<"U+1C81", <<"U+0414">>>>, <<"U+1C82", <<"U+041E">>>>, <<"U+1C83", <<"U+0421">>>>,
      <<"U+1C84", <<"U+0422">>>>, <<"U+1C85", <<"U+0422">>>>, <<"U+1C86", <<"U+042A">>>>,
      <<"U+1C87", <<"U+0462">>>>, <<"U+1C88", <<"U+A64A">>>>, <<"U+1D79", <<"U+A77D">>>>,
      <<"U+1D7D", <<"U+2C63">>>>, <<"U+1D8E", <<"U+A7C6">>>>, <<"U+1E01", <<"U+1E00">>>>,
      <<"U+1E03", <<"U+1E02">>>>, <<"U+1E05", <<"U+1E04">>>>, <<"U+1E07", <<"U+1E06">>>>,
      <<"U+1E09", <<"U+1E08">>>>, <<"U+1E0B", <<"U+1E0A">>>>, <<"U+1E0D", <<"U+1E0C">>>>,
      <<"U+1E0F", <<"U+1E0E">>>>, <<"U+1E11", <<"U+1E10">>>>, <<"U+1E13", <<"U+1E12">>>>,
      <<"U+1E15", <<"U+1E14">>>>, <<"U+1E17", <<"U+1E16">>>>, <<"U+1E19", <<"U+1E18">>>>,
      <<"U+1E1B", <<"U+1E1A">>>>, <<"U+1E1D", <<"U+1E1C">>>>, <<"U+1E1F", <<"U+1E1E">>>>,
      <<"U+1E21", <<"U+1E20">>>>, <<"U+1E23", <<"U+1E22">>>>, <<"U+1E25", <<"U+1E24">>>>,
      <<"U+1E27", <<"U+1E26">>>>, <<"U+1E29", <<"U+1E28">>>>, <<"U+1E2B", <<"U+1E2A">>>>,
      <<"U+1E2D", <<"U+1E2C">>>>, <<"U+1E2F", <<"U+1E2E">>>>, <<"U+1E31", <<"U+1E30">>>>,
      <<"U+1E33", <<"U+1E32">>>>, <<"U+1E35", <<"U+1E34">>>>, <<"U+1E37", <<"U+1E36">>>>,
      <<"U+1E39", <<"U+1E38">>>>, <<"U+1E3B", <<"U+1E3A">>>>, <<"U+1E3D", <<"U+1E3C">>>>,
      <<"U+1E3F", <<"U+1E3E">>>>, <<"U+1E41", <<"U+1E40">>>>, <<"U+1E43", <<"U+1E42">>>>,
      <<"U+1E45", <<"U+1E44">>>>, <<"U+1E47", <<"U+1E46">>>>, <<"U+1E49", <<"U+1E48">>>>,
      <<"U+1E4B", <<"U+1E4A">>>>, <<"U+1E4D", <<"U+1E4C">>>>, <<"U+1E4F", <<"U+1E4E">>>>,
      <<"U+1E51", <<"U+1E50">>>>, <<"U+1E53", <<"U+1E52">>>>, <<"U+1E55", <<"U+1E54">>>>,
      <<"U+1E57", <<"U+1E56">>>>, <<"U+1E59", <<"U+1E58">>>>, <<"U+1E5B", <<"U+1E5A">>>>,
      <<"U+1E5D", <<"U+1E5C">>>>, <<"U+1E5F", <<"U+1E5E">>>>, <<"U+1E61", <<"U+1E60">>>>,
      <<"U+1E63", <<"U+1E62">>>>, <<"U+1E65", <<"U+1E64">>>>, <<"U+1E67", <<"U+1E66">>>>,
      <<"U+1E69", <<"U+1E68">>>>, <<"U+1E6B", <<"U+1E6A">>>>, <<"U+1E6D", <<"U+1E6C">>>>,
      <<"U+1E6F", <<"U+1E6E">>>>, <<"U+1E71", <<"U+1E70">>>>, <<"U+1E73", <<"U+1E72">>>>,
      <<"U+1E75", <<"U+1E74">>>>, <<"U+1E77", <<"U+1E76">>>>, <<"U+1E79", <<"U+1E78">>>>,
      <<"U+1E7B", <<"U+1E7A">>>>, <<"U+1E7D", <<"U+1E7C">>>>, <<"U+1E7F", <<"U+1E7E">>>>,
      <<"U+1E81", <<"U+1E80">>>>, <<"U+1E83", <<"U+1E82">>>>, <<"U+1E85", <<"U+1E84">>>>,
      <<"U+1E87", <<"U+1E86">>>>, <<"U+1E89", <<"U+1E88">>>>, <<"U+1E8B", <<"U+1E8A">>>>,
      <<"U+1E8D", <<"U+1E8C">>>>, <<"U+1E8F", <<"U+1E8E">>>>, <<"U+1E91", <<"U+1E90">>>>,
      <<"U+1E93", <<"U+1E92">>>>, <<"U+1E95", <<"U+1E94">>>>, <<"U+1E96", <<"H", "U+0331">>>>,
      <<"U+1E97", <<"T", "U+0308">>>>, <<"U+1E98", <<"W", "U+030A">>>>,
      <<"U+1E99", <<"Y", "U+030A">>>>, <<"U+1E9A", <<"A", "U+02BE">>>>, <<"U+1E9B", <<"U+1E60">>>>,
      <<"U+1EA1", <<"U+1EA0">>>>, <<"U+1EA3", <<"U+1EA2">>>>, <<"U+1EA5", <<"U+1EA4">>>>,
      <<"U+1EA7", <<"U+1EA6">>>>, <<"U+1EA9", <<"U+1EA8">>>>, <<"U+1EAB", <<"U+1EAA">>>>,
      <<"U+1EAD", <<"U+1EAC">>>>, <<"U+1EAF", <<"U+1EAE">>>>, <<"U+1EB1", <<"U+1EB0">>>>,
      <<"U+1EB3", <<"U+1EB2">>>>, <<"U+1EB5", <<"U+1EB4">>>>, <<"U+1EB7", <<"U+1EB6">>>>,
      <<"U+1EB9", <<"U+1EB8">>>>, <<"U+1EBB", <<"U+1EBA">>>>, <<"U+1EBD", <<"U+1EBC">>>>,
      <<"U+1EBF", <<"U+1EBE">>>>, <<"U+1EC1", <<"U+1EC0">>>>, <<"U+1EC3", <<"U+1EC2">>>>,
      <<"U+1EC5", <<"U+1EC4">>>>, <<"U+1EC7", <<"U+1EC6">>>>, <<"U+1EC9", <<"U+1EC8">>>>,
      <<"U+1ECB", <<"U+1ECA">>>>, <<"U+1ECD", <<"U+1ECC">>>>, <<"U+1ECF", <<"U+1ECE">>>>,
      <<"U+1ED1", <<"U+1ED0">>>>, <<"U+1ED3", <<"U+1ED2">>>>, <<"U+1ED5", <<"U+1ED4">>>>,
      <<"U+1ED7", <<"U+1ED6">>>>, <<"U+1ED9", <<"U+1ED8">>>>, <<"U+1EDB", <<"U+1EDA">>>>,
      <<"U+1EDD", <<"U+1EDC">>>>, <<"U+1EDF", <<"U+1EDE">>>>, <<"U+1EE1", <<"U+1EE0">>>>,
      <<"U+1EE3", <<"U+1EE2">>>>, <<"U+1EE5", <<"U+1EE4">>>>, <<"U+1EE7", <<"U+1EE6">>>>,
      <<"U+1EE9", <<"U+1EE8">>>>, <<"U+1EEB", <<"U+1EEA">>>>, <<"U+1EED", <<"U+1EEC">>>>,
      <<"U+1EEF", <<"U+1EEE">>>>, <<"U+1EF1", <<"U+1EF0">>>>, <<"U+1EF3", <<"U+1EF2">>>>,
      <<"U+1EF5", <<"U+1EF4">>>>, <<"U+1EF7", <<"U+1EF6">>>>, <<"U+1EF9", <<"U+1EF8">>>>,
      <<"U+1EFB", <<"U+1EFA">>>>, <<"U+1EFD", <<"U+1EFC">>>>, <<"U+1EFF", <<"U+1EFE">>>>,
      <<"U+1F00", <<"U+1F08">>>>, <<"U+1F01", <<"U+1F09">>>>, <<"U+1F02", <<"U+1F0A">>>>,
      <<"U+1F03", <<"U+1F0B">>>>, <<"U+1F04", <<"U+1F0C">>>>, <<"U+1F05", <<"U+1F0D">>>>,
      <<"U+1F06", <<"U+1F0E">>>>, <<"U+1F07", <<"U+1F0F">>>>, <<"U+1F10", <<"U+1F18">>>>,
      <<"U+1F11", <<"U+1F19">>>>, <<"U+1F12", <<"U+1F1A">>>>, <<"U+1F13", <<"U+1F1B">>>>,
      <<"U+1F14", <<"U+1F1C">>>>, <<"U+1F15", <<"U+1F1D">>>>, <<"U+1F20", <<"U+1F28">>>>,
      <<"U+1F21", <<"U+1F29">>>>, <<"U+1F22", <<"U+1F2A">>>>, <<"U+1F23", <<"U+1F2B">>>>,
      <<"U+1F24", <<"U+1F2C">>>>, <<"U+1F25", <<"U+1F2D">>>>, <<"U+1F26", <<"U+1F2E">>>>,
      <<"U+1F27", <<"U+1F2F">>>>, <<"U+1F30", <<"U+1F38">>>>, <<"U+1F31", <<"U+1F39">>>>,
      <<"U+1F32", <<"U+1F3A">>>>, <<"U+1F33", <<"U+1F3B">>>>, <<"U+1F34", <<"U+1F3C">>>>,
      <<"U+1F35", <<"U+1F3D">>>>, <<"U+1F36", <<"U+1F3E">>>>, <<"U+1F37", <<"U+1F3F">>>>,
      <<"U+1F40", <<"U+1F48">>>>, <<"U+1F41", <<"U+1F49">>>>, <<"U+1F42", <<"U+1F4A">>>>,
      <<"U+1F43", <<"U+1F4B">>>>, <<"U+1F44", <<"U+1F4C">>>>, <<"U+1F45", <<"U+1F4D">>>>,
      <<"U+1F50", <<"U+03A5", "U+0313">>>>, <<"U+1F51", <<"U+1F59">>>>,
      <<"U+1F52", <<"U+03A5", "U+0313", "U+0300">>>>, <<"U+1F53", <<"U+1F5B">>>>,
      <<"U+1F54", <<"U+03A5", "U+0313", "U+0301">>>>, <<"U+1F55", <<"U+1F5D">>>>,
      <<"U+1F56", <<"U+03A5", "U+0313", "U+0342">>>>, <<"U+1F57", <<"U+1F5F">>>>,
      <<"U+1F60", <<"U+1F68">>>>, <<"U+1F61", <<"U+1F69">>>>, <<"U+1F62", <<"U+1F6A">>>>,
      <<"U+1F63", <<"U+1F6B">>>>, <<"U+1F64", <<"U+1F6C">>>>, <<"U+1F65", <<"U+1F6D">>>>,
      <<"U+1F66", <<"U+1F6E">>>>, <<"U+1F67", <<"U+1F6F">>>>, <<"U+1F70", <<"U+1FBA">>>>,
      <<"U+1F71", <<"U+1FBB">>>>, <<"U+1F72", <<"U+1FC8">>>>, <<"U+1F73", <<"U+1FC9">>>>,
      <<"U+1F74", <<"U+1FCA">>>>, <<"U+1F75", <<"U+1FCB">>>>, <<"U+1F76", <<"U+1FDA">>>>,
      <<"U+1F77", <<"U+1FDB">>>>, <<"U+1F78", <<"U+1FF8">>>>, <<"U+1F79", <<"U+1FF9">>>>,
      <<"U+1F7A", <<"U+1FEA">>>>, <<"U+1F7B", <<"U+1FEB">>>>, <<"U+1F7C", <<"U+1FFA">>>>,
      <<"U+1F7D", <<"U+1FFB">>>>, <<"U+1F80", <<"U+1F08", "U+0399">>>>,
      <<"U+1F81", <<"U+1F09", "U+0399">>>>, <<"U+1F82", <<"U+1F0A", "U+0399">>>>,
      <<"U+1F83", <<"U+1F0B", "U+0399">>>>, <<"U+1F84", <<"U+1F0C", "U+0399">>>>,
      <<"U+1F85", <<"U+1F0D", "U+0399">>>>, <<"U+1F86", <<"U+1F0E", "U+0399">>>>,
      <<"U+1F87", <<"U+1F0F", "U+0399">>>>, <<"U+1F88", <<"U+1F08", "U+0399">>>>,
      <<"U+1F89", <<"U+1F09", "U+0399">>>>, <<"U+1F8A", <<"U+1F0A", "U+0399">>>>,
      <<"U+1F8B", <<"U+1F0B", "U+0399">>>>, <<"U+1F8C", <<"U+1F0C", "U+0399">>>>,
      <<"U+1F8D", <<"U+1F0D", "U+0399">>>>, <<"U+1F8E", <<"U+1F0E", "U+0399">>>>,
      <<"U+1F8F", <<"U+1F0F", "U+0399">>>>, <<"U+1F90", <<"U+1F28", "U+0399">>>>,
      <<"U+1F91", <<"U+1F29", "U+0399">>>>, <<"U+1F92", <<"U+1F2A", "U+0399">>>>,
      <<"U+1F93", <<"U+1F2B", "U+0399">>>>, <<"U+1F94", <<"U+1F2C", "U+0399">>>>,
      <<"U+1F95", <<"U+1F2D", "U+0399">>>>, <<"U+1F96", <<"U+1F2E", "U+0399">>>>,
      <<"U+1F97", <<"U+1F2F", "U+0399">>>>, <<"U+1F98", <<"U+1F28", "U+0399">>>>,
      <<"U+1F99", <<"U+1F29", "U+0399">>>>, <<"U+1F9A", <<"U+1F2A", "U+0399">>>>,
      <<"U+1F9B", <<"U+1F2B", "U+0399">>>>, <<"U+1F9C", <<"U+1F2C", "U+0399">>>>,
      <<"U+1F9D", <<"U+1F2D", "U+0399">>>>, <<"U+1F9E", <<"U+1F2E", "U+0399">>>>,
      <<"U+1F9F", <<"U+1F2F", "U+0399">>>>, <<"U+1FA0", <<"U+1F68", "U+0399">>>>,
      <<"U+1FA1", <<"U+1F69", "U+0399">>>>, <<"U+1FA2", <<"U+1F6A", "U+0399">>>>,
      <<"U+1FA3", <<"U+1F6B", "U+0399">>>>, <<"U+1FA4", <<"U+1F6C", "U+0399">>>>,
      <<"U+1FA5", <<"U+1F6D", "U+0399">>>>, <<"U+1FA6", <<"U+1F6E", "U+0399">>>>,
      <<"U+1FA7", <<"U+1F6F", "U+0399">>>>, <<"U+1FA8", <<"U+1F68", "U+0399">>>>,
      <<"U+1FA9", <<"U+1F69", "U+0399">>>>, <<"U+1FAA", <<"U+1F6A", "U+0399">>>>,
      <<"U+1FAB", <<"U+1F6B", "U+0399">>>>, <<"U+1FAC", <<"U+1F6C", "U+0399">>>>,
      <<"U+1FAD", <<"U+1F6D", "U+0399">>>>, <<"U+1FAE", <<"U+1F6E", "U+0399">>>>,
      <<"U+1FAF", <<"U+1F6F", "U+0399">>>>, <<"U+1FB0", <<"U+1FB8">>>>, <<"U+1FB1", <<"U+1FB9">>>>,
      <<"U+1FB2", <<"U+1FBA", "U+0399">>>>, <<"U+1FB3", <<"U+0391", "U+0399">>>>,
      <<"U+1FB4", <<"U+0386", "U+0399">>>>, <<"U+1FB6", <<"U+0391", "U+0342">>>>,
      <<"U+1FB7", <<"U+0391", "U+0342", "U+0399">>>>, <<"U+1FBC", <<"U+0391", "U+0399">>>>,
      <<"U+1FBE", <<"U+0399">>>>, <<"U+1FC2", <<"U+1FCA", "U+0399">>>>,
      <<"U+1FC3", <<"U+0397", "U+0399">>>>, <<"U+1FC4", <<"U+0389", "U+0399">>>>,
      <<"U+1FC6", <<"U+0397", "U+0342">>>>, <<"U+1FC7", <<"U+0397", "U+0342", "U+0399">>>>,
      <<"U+1FCC", <<"U+0397", "U+0399">>>>, <<"U+1FD0", <<"U+1FD8">>>>, <<"U+1FD1", <<"U+1FD9">>>>,
      <<"U+1FD2", <<"U+0399", "U+0308", "U+0300">>>>,
      <<"U+1FD3", <<"U+0399", "U+0308", "U+0301">>>>, <<"U+1FD6", <<"U+0399", "U+0342">>>>,
      <<"U+1FD7", <<"U+0399", "U+0308", "U+0342">>>>, <<"U+1FE0", <<"U+1FE8">>>>,
      <<"U+1FE1", <<"U+1FE9">>>>, <<"U+1FE2", <<"U+03A5", "U+0308", "U+0300">>>>,
      <<"U+1FE3", <<"U+03A5", "U+0308", "U+0301">>>>, <<"U+1FE4", <<"U+03A1", "U+0313">>>>,
      <<"U+1FE5", <<"U+1FEC">>>>, <<"U+1FE6", <<"U+03A5", "U+0342">>>>,
      <<"U+1FE7", <<"U+03A5", "U+0308", "U+0342">>>>, <<"U+1FF2", <<"U+1FFA", "U+0399">>>>,
      <<"U+1FF3", <<"U+03A9", "U+0399">>>>, <<"U+1FF4", <<"U+038F", "U+0399">>>>,
      <<"U+1FF6", <<"U+03A9", "U+0342">>>>, <<"U+1FF7", <<"U+03A9", "U+0342", "U+0399">>>>,
      <<"U+1FFC", <<"U+03A9", "U+0399">>>>, <<"U+214E", <<"U+2132">>>>, <<"U+2170", <<"U+2160">>>>,
      <<"U+2171", <<"U+2161">>>>, <<"U+2172", <<"U+2162">>>>, <<"U+2173", <<"U+2163">>>>,
      <<"U+2174", <<"U+2164">>>>, <<"U+2175", <<"U+2165">>>>, <<"U+2176", <<"U+2166">>>>,
      <<"U+2177", <<"U+2167">>>>, <<"U+2178", <<"U+2168">>>>, <<"U+2179", <<"U+2169">>>>,
      <<"U+217A", <<"U+216A">>>>, <<"U+217B", <<"U+216B">>>>, <<"U+217C", <<"U+216C">>>>,
      <<"U+217D", <<"U+216D">>>>, <<"U+217E", <<"U+216E">>>>, <<"U+217F", <<"U+216F">>>>,
      <<"U+2184", <<"U+2183">>>>, <<"U+24D0", <<"U+24B6">>>>, <<"U+24D1", <<"U+24B7">>>>,
      <<"U+24D2", <<"U+24B8">>>>, <<"U+24D3", <<"U+24B9">>>>, <<"U+24D4", <<"U+24BA">>>>,
      <<"U+24D5", <<"U+24BB">>>>, <<"U+24D6", <<"U+24BC">>>>, <<"U+24D7", <<"U+24BD">>>>,
      <<"U+24D8", <<"U+24BE">>>>, <<"U+24D9", <<"U+24BF">>>>, <<"U+24DA", <<"U+24C0">>>>,
      <<"U+24DB", <<"U+24C1">>>>, <<"U+24DC", <<"U+24C2">>>>, <<"U+24DD", <<"U+24C3">>>>,
      <<"U+24DE", <<"U+24C4">>>>, <<"U+24DF", <<"U+24C5">>>>, <<"U+24E0", <<"U+24C6">>>>,
      <<"U+24E1", <<"U+24C7">>>>, <<"U+24E2", <<"U+24C8">>>>, <<"U+24E3", <<"U+24C9">>>>,
      <<"U+24E4", <<"U+24CA">>>>, <<"U+24E5", <<"U+24CB">>>>, <<"U+24E6", <<"U+24CC">>>>,
      <<"U+24E7", <<"U+24CD">>>>, <<"U+24E8", <<"U+24CE">>>>, <<"U+24E9", <<"U+24CF">>>>,
      <<"U+2C30", <<"U+2C00">>>>, <<"U+2C31", <<"U+2C01">>>>, <<"U+2C32", <<"U+2C02">>>>,
      <<"U+2C33", <<"U+2C03">>>>, <<"U+2C34", <<"U+2C04">>>>, <<"U+2C35", <<"U+2C05">>>>,
      <<"U+2C36", <<"U+2C06">>>>, <<"U+2C37", <<"U+2C07">>>>, <<"U+2C38", <<"U+2C08">>>>,
      <<"U+2C39", <<"U+2C09">>>>, <<"U+2C3A", <<"U+2C0A">>>>, <<"U+2C3B", <<"U+2C0B">>>>,
      <<"U+2C3C", <<"U+2C0C">>>>, <<"U+2C3D", <<"U+2C0D">>>>, <<"U+2C3E", <<"U+2C0E">>>>,
      <<"U+2C3F", <<"U+2C0F">>>>, <<"U+2C40", <<"U+2C10">>>>, <<"U+2C41", <<"U+2C11">>>>,
      <<"U+2C42", <<"U+2C12">>>>, <<"U+2C43", <<"U+2C13">>>>, <<"U+2C44", <<"U+2C14">>>>,
      <<"U+2C45", <<"U+2C15">>>>, <<"U+2C46", <<"U+2C16">>>>, <<"U+2C47", <<"U+2C17">>>>,
      <<"U+2C48", <<"U+2C18">>>>, <<"U+2C49", <<"U+2C19">>>>, <<"U+2C4A", <<"U+2C1A">>>>,
      <<"U+2C4B", <<"U+2C1B">>>>, <<"U+2C4C", <<"U+2C1C">>>>, <<"U+2C4D", <<"U+2C1D">>>>,
      <<"U+2C4E", <<"U+2C1E">>>>, <<"U+2C4F", <<"U+2C1F">>>>, <<"U+2C50", <<"U+2C20">>>>,
      <<"U+2C51", <<"U+2C21">>>>, <<"U+2C52", <<"U+2C22">>>>, <<"U+2C53", <<"U+2C23">>>>,
      <<"U+2C54", <<"U+2C24">>>>, <<"U+2C55", <<"U+2C25">>>>, <<"U+2C56", <<"U+2C26">>>>,
      <<"U+2C57", <<"U+2C27">>>>, <<"U+2C58", <<"U+2C28">>>>, <<"U+2C59", <<"U+2C29">>>>,
      <<"U+2C5A", <<"U+2C2A">>>>, <<"U+2C5B", <<"U+2C2B">>>>, <<"U+2C5C", <<"U+2C2C">>>>,
      <<"U+2C5D", <<"U+2C2D">>>>, <<"U+2C5E", <<"U+2C2E">>>>, <<"U+2C5F", <<"U+2C2F">>>>,
      <<"U+2C61", <<"U+2C60">>>>, <<"U+2C65", <<"U+023A">>>>, <<"U+2C66", <<"U+023E">>>>,
      <<"U+2C68", <<"U+2C67">>>>, <<"U+2C6A", <<"U+2C69">>>>, <<"U+2C6C", <<"U+2C6B">>>>,
      <<"U+2C73", <<"U+2C72">>>>, <<"U+2C76", <<"U+2C75">>>>, <<"U+2C81", <<"U+2C80">>>>,
      <<"U+2C83", <<"U+2C82">>>>, <<"U+2C85", <<"U+2C84">>>>, <<"U+2C87", <<"U+2C86">>>>,
      <<"U+2C89", <<"U+2C88">>>>, <<"U+2C8B", <<"U+2C8A">>>>, <<"U+2C8D", <<"U+2C8C">>>>,
      <<"U+2C8F", <<"U+2C8E">>>>, <<"U+2C91", <<"U+2C90">>>>, <<"U+2C93", <<"U+2C92">>>>,
      <<"U+2C95", <<"U+2C94">>>>, <<"U+2C97", <<"U+2C96">>>>, <<"U+2C99", <<"U+2C98">>>>,
      <<"U+2C9B", <<"U+2C9A">>>>, <<"U+2C9D", <<"U+2C9C">>>>, <<"U+2C9F", <<"U+2C9E">>>>,
      <<"U+2CA1", <<"U+2CA0">>>>, <<"U+2CA3", <<"U+2CA2">>>>, <<"U+2CA5", <<"U+2CA4">>>>,
      <<"U+2CA7", <<"U+2CA6">>>>, <<"U+2CA9", <<"U+2CA8">>>>, <<"U+2CAB", <<"U+2CAA">>>>,
      <<"U+2CAD", <<"U+2CAC">>>>, <<"U+2CAF", <<"U+2CAE">>>>, <<"U+2CB1", <<"U+2CB0">>>>,
      <<"U+2CB3", <<"U+2CB2">>>>, <<"U+2CB5", <<"U+2CB4">>>>, <<"U+2CB7", <<"U+2CB6">>>>,
      <<"U+2CB9", <<"U+2CB8">>>>, <<"U+2CBB", <<"U+2CBA">>>>, <<"U+2CBD", <<"U+2CBC">>>>,
      <<"U+2CBF", <<"U+2CBE">>>>, <<"U+2CC1", <<"U+2CC0">>>>, <<"U+2CC3", <<"U+2CC2">>>>,
      <<"U+2CC5", <<"U+2CC4">>>>, <<"U+2CC7", <<"U+2CC6">>>>, <<"U+2CC9", <<"U+2CC8">>>>,
      <<"U+2CCB", <<"U+2CCA">>>>, <<"U+2CCD", <<"U+2CCC">>>>, <<"U+2CCF", <<"U+2CCE">>>>,
      <<"U+2CD1", <<"U+2CD0">>>>, <<"U+2CD3", <<"U+2CD2">>>>, <<"U+2CD5", <<"U+2CD4">>>>,
      <<"U+2CD7", <<"U+2CD6">>>>, <<"U+2CD9", <<"U+2CD8">>>>, <<"U+2CDB", <<"U+2CDA">>>>,
      <<"U+2CDD", <<"U+2CDC">>>>, <<"U+2CDF", <<"U+2CDE">>>>, <<"U+2CE1", <<"U+2CE0">>>>,
      <<"U+2CE3", <<"U+2CE2">>>>, <<"U+2CEC", <<"U+2CEB">>>>, <<"U+2CEE", <<"U+2CED">>>>,
      <<"U+2CF3", <<"U+2CF2">>>>, <<"U+2D00", <<"U+10A0">>>>, <<"U+2D01", <<"U+10A1">>>>,
      <<"U+2D02", <<"U+10A2">>>>, <<"U+2D03", <<"U+10A3">>>>, <<"U+2D04", <<"U+10A4">>>>,
      <<"U+2D05", <<"U+10A5">>>>, <<"U+2D06", <<"U+10A6">>>>, <<"U+2D07", <<"U+10A7">>>>,
      <<"U+2D08", <<"U+10A8">>>>, <<"U+2D09", <<"U+10A9">>>>, <<"U+2D0A", <<"U+10AA">>>>,
      <<"U+2D0B", <<"U+10AB">>>>, <<"U+2D0C", <<"U+10AC">>>>, <<"U+2D0D", <<"U+10AD">>>>,
      <<"U+2D0E", <<"U+10AE">>>>, <<"U+2D0F", <<"U+10AF">>>>, <<"U+2D10", <<"U+10B0">>>>,
      <<"U+2D11", <<"U+10B1">>>>, <<"U+2D12", <<"U+10B2">>>>, <<"U+2D13", <<"U+10B3">>>>,
      <<"U+2D14", <<"U+10B4">>>>, <<"U+2D15", <<"U+10B5">>>>, <<"U+2D16", <<"U+10B6">>>>,
      <<"U+2D17", <<"U+10B7">>>>, <<"U+2D18", <<"U+10B8">>>>, <<"U+2D19", <<"U+10B9">>>>,
      <<"U+2D1A", <<"U+10BA">>>>, <<"U+2D1B", <<"U+10BB">>>>, <<"U+2D1C", <<"U+10BC">>>>,
      <<"U+2D1D", <<"U+10BD">>>>, <<"U+2D1E", <<"U+10BE">>>>, <<"U+2D1F", <<"U+10BF">>>>,
      <<"U+2D20", <<"U+10C0">>>>, <<"U+2D21", <<"U+10C1">>>>, <<"U+2D22", <<"U+10C2">>>>,
      <<"U+2D23", <<"U+10C3">>>>, <<"U+2D24", <<"U+10C4">>>>, <<"U+2D25", <<"U+10C5">>>>,
      <<"U+2D27", <<"U+10C7">>>>, <<"U+2D2D", <<"U+10CD">>>>, <<"U+A641", <<"U+A640">>>>,
      <<"U+A643", <<"U+A642">>>>, <<"U+A645", <<"U+A644">>>>, <<"U+A647", <<"U+A646">>>>,
      <<"U+A649", <<"U+A648">>>>, <<"U+A64B", <<"U+A64A">>>>, <<"U+A64D", <<"U+A64C">>>>,
      <<"U+A64F", <<"U+A64E">>>>, <<"U+A651", <<"U+A650">>>>, <<"U+A653", <<"U+A652">>>>,
      <<"U+A655", <<"U+A654">>>>, <<"U+A657", <<"U+A656">>>>, <<"U+A659", <<"U+A658">>>>,
      <<"U+A65B", <<"U+A65A">>>>, <<"U+A65D", <<"U+A65C">>>>, <<"U+A65F", <<"U+A65E">>>>,
      <<"U+A661", <<"U+A660">>>>, <<"U+A663", <<"U+A662">>>>, <<"U+A665", <<"U+A664">>>>,
      <<"U+A667", <<"U+A666">>>>, <<"U+A669", <<"U+A668">>>>, <<"U+A66B", <<"U+A66A">>>>,
      <<"U+A66D", <<"U+A66C">>>>, <<"U+A681", <<"U+A680">>>>, <<"U+A683", <<"U+A682">>>>,
      <<"U+A685", <<"U+A684">>>>, <<"U+A687", <<"U+A686">>>>, <<"U+A689", <<"U+A688">>>>,
      <<"U+A68B", <<"U+A68A">>>>, <<"U+A68D", <<"U+A68C">>>>, <<"U+A68F", <<"U+A68E">>>>,
      <<"U+A691", <<"U+A690">>>>, <<"U+A693", <<"U+A692">>>>, <<"U+A695", <<"U+A694">>>>,
      <<"U+A697", <<"U+A696">>>>, <<"U+A699", <<"U+A698">>>>, <<"U+A69B", <<"U+A69A">>>>,
      <<"U+A723", <<"U+A722">>>>, <<"U+A725", <<"U+A724">>>>, <<"U+A727", <<"U+A726">>>>,
      <<"U+A729", <<"U+A728">>>>, <<"U+A72B", <<"U+A72A">>>>, <<"U+A72D", <<"U+A72C">>>>,
      <<"U+A72F", <<"U+A72E">>>>, <<"U+A733", <<"U+A732">>>>, <<"U+A735", <<"U+A734">>>>,
      <<"U+A737", <<"U+A736">>>>, <<"U+A739", <<"U+A738">>>>, <<"U+A73B", <<"U+A73A">>>>,
      <<"U+A73D", <<"U+A73C">>>>, <<"U+A73F", <<"U+A73E">>>>, <<"U+A741", <<"U+A740">>>>,
      <<"U+A743", <<"U+A742">>>>, <<"U+A745", <<"U+A744">>>>, <<"U+A747", <<"U+A746">>>>,
      <<"U+A749", <<"U+A748">>>>, <<"U+A74B", <<"U+A74A">>>>, <<"U+A74D", <<"U+A74C">>>>,
      <<"U+A74F", <<"U+A74E">>>>, <<"U+A751", <<"U+A750">>>>, <<"U+A753", <<"U+A752">>>>,
      <<"U+A755", <<"U+A754">>>>, <<"U+A757", <<"U+A756">>>>, <<"U+A759", <<"U+A758">>>>,
      <<"U+A75B", <<"U+A75A">>>>, <<"U+A75D", <<"U+A75C">>>>, <<"U+A75F", <<"U+A75E">>>>,
      <<"U+A761", <<"U+A760">>>>, <<"U+A763", <<"U+A762">>>>, <<"U+A765", <<"U+A764">>>>,
      <<"U+A767", <<"U+A766">>>>, <<"U+A769", <<"U+A768">>>>, <<"U+A76B", <<"U+A76A">>>>,
      <<"U+A76D", <<"U+A76C">>>>, <<"U+A76F", <<"U+A76E">>>>, <<"U+A77A", <<"U+A779">>>>,
      <<"U+A77C", <<"U+A77B">>>>, <<"U+A77F", <<"U+A77E">>>>, <<"U+A781", <<"U+A780">>>>,
      <<"U+A783", <<"U+A782">>>>, <<"U+A785", <<"U+A784">>>>, <<"U+A787", <<"U+A786">>>>,
      <<"U+A78C", <<"U+A78B">>>>, <<"U+A791", <<"U+A790">>>>, <<"U+A793", <<"U+A792">>>>,
      <<"U+A794", <<"U+A7C4">>>>, <<"U+A797", <<"U+A796">>>>, <<"U+A799", <<"U+A798">>>>,
      <<"U+A79B", <<"U+A79A">>>>, <<"U+A79D", <<"U+A79C">>>>, <<"U+A79F", <<"U+A79E">>>>,
      <<"U+A7A1", <<"U+A7A0">>>>, <<"U+A7A3", <<"U+A7A2">>>>, <<"U+A7A5", <<"U+A7A4">>>>,
      <<"U+A7A7", <<"U+A7A6">>>>, <<"U+A7A9", <<"U+A7A8">>>>, <<"U+A7B5", <<"U+A7B4">>>>,
      <<"U+A7B7", <<"U+A7B6">>>>, <<"U+A7B9", <<"U+A7B8">>>>, <<"U+A7BB", <<"U+A7BA">>>>,
      <<"U+A7BD", <<"U+A7BC">>>>, <<"U+A7BF", <<"U+A7BE">>>>, <<"U+A7C1", <<"U+A7C0">>>>,
      <<"U+A7C3", <<"U+A7C2">>>>, <<"U+A7C8", <<"U+A7C7">>>>, <<"U+A7CA", <<"U+A7C9">>>>,
      <<"U+A7D1", <<"U+A7D0">>>>, <<"U+A7D7", <<"U+A7D6">>>>, <<"U+A7D9", <<"U+A7D8">>>>,
      <<"U+A7F6", <<"U+A7F5">>>>, <<"U+AB53", <<"U+A7B3">>>>, <<"U+AB70", <<"U+13A0">>>>,
      <<"U+AB71", <<"U+13A1">>>>, <<"U+AB72", <<"U+13A2">>>>, <<"U+AB73", <<"U+13A3">>>>,
      <<"U+AB74", <<"U+13A4">>>>, <<"U+AB75", <<"U+13A5">>>>, <<"U+AB76", <<"U+13A6">>>>,
      <<"U+AB77", <<"U+13A7">>>>, <<"U+AB78", <<"U+13A8">>>>, <<"U+AB79", <<"U+13A9">>>>,
      <<"U+AB7A", <<"U+13AA">>>>, <<"U+AB7B", <<"U+13AB">>>>, <<"U+AB7C", <<"U+13AC">>>>,
      <<"U+AB7D", <<"U+13AD">>>>, <<"U+AB7E", <<"U+13AE">>>>, <<"U+AB7F", <<"U+13AF">>>>,
      <<"U+AB80", <<"U+13B0">>>>, <<"U+AB81", <<"U+13B1">>>>, <<"U+AB82", <<"U+13B2">>>>,
      <<"U+AB83", <<"U+13B3">>>>, <<"U+AB84", <<"U+13B4">>>>, <<"U+AB85", <<"U+13B5">>>>,
      <<"U+AB86", <<"U+13B6">>>>, <<"U+AB87", <<"U+13B7">>>>, <<"U+AB88", <<"U+13B8">>>>,
      <<"U+AB89", <<"U+13B9">>>>, <<"U+AB8A", <<"U+13BA">>>>, <<"U+AB8B", <<"U+13BB">>>>,
      <<"U+AB8C", <<"U+13BC">>>>, <<"U+AB8D", <<"U+13BD">>>>, <<"U+AB8E", <<"U+13BE">>>>,
      <<"U+AB8F", <<"U+13BF">>>>, <<"U+AB90", <<"U+13C0">>>>, <<"U+AB91", <<"U+13C1">>>>,
      <<"U+AB92", <<"U+13C2">>>>, <<"U+AB93", <<"U+13C3">>>>, <<"U+AB94", <<"U+13C4">>>>,
      <<"U+AB95", <<"U+13C5">>>>, <<"U+AB96", <<"U+13C6">>>>, <<"U+AB97", <<"U+13C7">>>>,
      <<"U+AB98", <<"U+13C8">>>>, <<"U+AB99", <<"U+13C9">>>>, <<"U+AB9A", <<"U+13CA">>>>,
      <<"U+AB9B", <<"U+13CB">>>>, <<"U+AB9C", <<"U+13CC">>>>, <<"U+AB9D", <<"U+13CD">>>>,
      <<"U+AB9E", <<"U+13CE">>>>, <<"U+AB9F", <<"U+13CF">>>>, <<"U+ABA0", <<"U+13D0">>>>,
      <<"U+ABA1", <<"U+13D1">>>>, <<"U+ABA2", <<"U+13D2">>>>, <<"U+ABA3", <<"U+13D3">>>>,
      <<"U+ABA4", <<"U+13D4">>>>, <<"U+ABA5", <<"U+13D5">>>>, <<"U+ABA6", <<"U+13D6">>>>,
      <<"U+ABA7", <<"U+13D7">>>>, <<"U+ABA8", <<"U+13D8">>>>, <<"U+ABA9", <<"U+13D9">>>>,
      <<"U+ABAA", <<"U+13DA">>>>, <<"U+ABAB", <<"U+13DB">>>>, <<"U+ABAC", <<"U+13DC">>>>,
      <<"U+ABAD", <<"U+13DD">>>>, <<"U+ABAE", <<"U+13DE">>>>, <<"U+ABAF", <<"U+13DF">>>>,
      <<"U+ABB0", <<"U+13E0">>>>, <<"U+ABB1", <<"U+13E1">>>>, <<"U+ABB2", <<"U+13E2">>>>,
      <<"U+ABB3", <<"U+13E3">>>>, <<"U+ABB4", <<"U+13E4">>>>, <<"U+ABB5", <<"U+13E5">>>>,
      <<"U+ABB6", <<"U+13E6">>>>, <<"U+ABB7", <<"U+13E7">>>>, <<"U+ABB8", <<"U+13E8">>>>,
      <<"U+ABB9", <<"U+13E9">>>>, <<"U+ABBA", <<"U+13EA">>>>, <<"U+ABBB", <<"U+13EB">>>>,
      <<"U+ABBC", <<"U+13EC">>>>, <<"U+ABBD", <<"U+13ED">>>>, <<"U+ABBE", <<"U+13EE">>>>,
      <<"U+ABBF", <<"U+13EF">>>>, <<"U+FB00", <<"F", "F">>>>, <<"U+FB01", <<"F", "I">>>>,
      <<"U+FB02", <<"F", "L">>>>, <<"U+FB03", <<"F", "F", "I">>>>, <<"U+FB04", <<"F", "F", "L">>>>,
      <<"U+FB05", <<"S", "T">>>>, <<"U+FB06", <<"S", "T">>>>, <<"U+FB13", <<"U+0544", "U+0546">>>>,
      <<"U+FB14", <<"U+0544", "U+0535">>>>, <<"U+FB15", <<"U+0544", "U+053B">>>>,
      <<"U+FB16", <<"U+054E", "U+0546">>>>, <<"U+FB17", <<"U+0544", "U+053D">>>>,
      <<"U+FF41", <<"U+FF21">>>>, <<"U+FF42", <<"U+FF22">>>>, <<"U+FF43", <<"U+FF23">>>>,
      <<"U+FF44", <<"U+FF24">>>>, <<"U+FF45", <<"U+FF25">>>>, <<"U+FF46", <<"U+FF26">>>>,
      <<"U+FF47", <<"U+FF27">>>>, <<"U+FF48", <<"U+FF28">>>>, <<"U+FF49", <<"U+FF29">>>>,
      <<"U+FF4A", <<"U+FF2A">>>>, <<"U+FF4B", <<"U+FF2B">>>>, <<"U+FF4C", <<"U+FF2C">>>>,
      <<"U+FF4D", <<"U+FF2D">>>>, <<"U+FF4E", <<"U+FF2E">>>>, <<"U+FF4F", <<"U+FF2F">>>>,
      <<"U+FF50", <<"U+FF30">>>>, <<"U+FF51", <<"U+FF31">>>>, <<"U+FF52", <<"U+FF32">>>>,
      <<"U+FF53", <<"U+FF33">>>>, <<"U+FF54", <<"U+FF34">>>>, <<"U+FF55", <<"U+FF35">>>>,
      <<"U+FF56", <<"U+FF36">>>>, <<"U+FF57", <<"U+FF37">>>>, <<"U+FF58", <<"U+FF38">>>>,
      <<"U+FF59", <<"U+FF39">>>>, <<"U+FF5A", <<"U+FF3A">>>>, <<"U+10428", <<"U+10400">>>>,
      <<"U+10429", <<"U+10401">>>>, <<"U+1042A", <<"U+10402">>>>, <<"U+1042B", <<"U+10403">>>>,
      <<"U+1042C", <<"U+10404">>>>, <<"U+1042D", <<"U+10405">>>>, <<"U+1042E", <<"U+10406">>>>,
      <<"U+1042F", <<"U+10407">>>>, <<"U+10430", <<"U+10408">>>>, <<"U+10431", <<"U+10409">>>>,
      <<"U+10432", <<"U+1040A">>>>, <<"U+10433", <<"U+1040B">>>>, <<"U+10434", <<"U+1040C">>>>,
      <<"U+10435", <<"U+1040D">>>>, <<"U+10436", <<"U+1040E">>>>, <<"U+10437", <<"U+1040F">>>>,
      <<"U+10438", <<"U+10410">>>>, <<"U+10439", <<"U+10411">>>>, <<"U+1043A", <<"U+10412">>>>,
      <<"U+1043B", <<"U+10413">>>>, <<"U+1043C", <<"U+10414">>>>, <<"U+1043D", <<"U+10415">>>>,
      <<"U+1043E", <<"U+10416">>>>, <<"U+1043F", <<"U+10417">>>>, <<"U+10440", <<"U+10418">>>>,
      <<"U+10441", <<"U+10419">>>>, <<"U+10442", <<"U+1041A">>>>, <<"U+10443", <<"U+1041B">>>>,
      <<"U+10444", <<"U+1041C">>>>, <<"U+10445", <<"U+1041D">>>>, <<"U+10446", <<"U+1041E">>>>,
      <<"U+10447", <<"U+1041F">>>>, <<"U+10448", <<"U+10420">>>>, <<"U+10449", <<"U+10421">>>>,
      <<"U+1044A", <<"U+10422">>>>, <<"U+1044B", <<"U+10423">>>>, <<"U+1044C", <<"U+10424">>>>,
      <<"U+1044D", <<"U+10425">>>>, <<"U+1044E", <<"U+10426">>>>, <<"U+1044F", <<"U+10427">>>>,
      <<"U+104D8", <<"U+104B0">>>>, <<"U+104D9", <<"U+104B1">>>>, <<"U+104DA", <<"U+104B2">>>>,
      <<"U+104DB", <<"U+104B3">>>>, <<"U+104DC", <<"U+104B4">>>>, <<"U+104DD", <<"U+104B5">>>>,
      <<"U+104DE", <<"U+104B6">>>>, <<"U+104DF", <<"U+104B7">>>>, <<"U+104E0", <<"U+104B8">>>>,
      <<"U+104E1", <<"U+104B9">>>>, <<"U+104E2", <<"U+104BA">>>>, <<"U+104E3", <<"U+104BB">>>>,
      <<"U+104E4", <<"U+104BC">>>>, <<"U+104E5", <<"U+104BD">>>>, <<"U+104E6", <<"U+104BE">>>>,
      <<"U+104E7", <<"U+104BF">>>>, <<"U+104E8", <<"U+104C0">>>>, <<"U+104E9", <<"U+104C1">>>>,
      <<"U+104EA", <<"U+104C2">>>>, <<"U+104EB", <<"U+104C3">>>>, <<"U+104EC", <<"U+104C4">>>>,
      <<"U+104ED", <<"U+104C5">>>>, <<"U+104EE", <<"U+104C6">>>>, <<"U+104EF", <<"U+104C7">>>>,
      <<"U+104F0", <<"U+104C8">>>>, <<"U+104F1", <<"U+104C9">>>>, <<"U+104F2", <<"U+104CA">>>>,
      <<"U+104F3", <<"U+104CB">>>>, <<"U+104F4", <<"U+104CC">>>>, <<"U+104F5", <<"U+104CD">>>>,
      <<"U+104F6", <<"U+104CE">>>>, <<"U+104F7", <<"U+104CF">>>>, <<"U+104F8", <<"U+104D0">>>>,
      <<"U+104F9", <<"U+104D1">>>>, <<"U+104FA", <<"U+104D2">>>>, <<"U+104FB", <<"U+104D3">>>>,
      <<"U+10597", <<"U+10570">>>>, <<"U+10598", <<"U+10571">>>>, <<"U+10599", <<"U+10572">>>>,
      <<"U+1059A", <<"U+10573">>>>, <<"U+1059B", <<"U+10574">>>>, <<"U+1059C", <<"U+10575">>>>,
      <<"U+1059D", <<"U+10576">>>>, <<"U+1059E", <<"U+10577">>>>, <<"U+1059F", <<"U+10578">>>>,
      <<"U+105A0", <<"U+10579">>>>, <<"U+105A1", <<"U+1057A">>>>, <<"U+105A3", <<"U+1057C">>>>,
      <<"U+105A4", <<"U+1057D">>>>, <<"U+105A5", <<"U+1057E">>>>, <<"U+105A6", <<"U+1057F">>>>,
      <<"U+105A7", <<"U+10580">>>>, <<"U+105A8", <<"U+10581">>>>, <<"U+105A9", <<"U+10582">>>>,
      <<"U+105AA", <<"U+10583">>>>, <<"U+105AB", <<"U+10584">>>>, <<"U+105AC", <<"U+10585">>>>,
      <<"U+105AD", <<"U+10586">>>>, <<"U+105AE", <<"U+10587">>>>, <<"U+105AF", <<"U+10588">>>>,
      <<"U+105B0", <<"U+10589">>>>, <<"U+105B1", <<"U+1058A">>>>, <<"U+105B3", <<"U+1058C">>>>,
      <<"U+105B4", <<"U+1058D">>>>, <<"U+105B5", <<"U+1058E">>>>, <<"U+105B6", <<"U+1058F">>>>,
      <<"U+105B7", <<"U+10590">>>>, <<"U+105B8", <<"U+10591">>>>, <<"U+105B9", <<"U+10592">>>>,
      <<"U+105BB", <<"U+10594">>>>, <<"U+105BC", <<"U+10595">>>>, <<"U+10CC0", <<"U+10C80">>>>,
      <<"U+10CC1", <<"U+10C81">>>>, <<"U+10CC2", <<"U+10C82">>>>, <<"U+10CC3", <<"U+10C83">>>>,
      <<"U+10CC4", <<"U+10C84">>>>, <<"U+10CC5", <<"U+10C85">>>>, <<"U+10CC6", <<"U+10C86">>>>,
      <<"U+10CC7", <<"U+10C87">>>>, <<"U+10CC8", <<"U+10C88">>>>, <<"U+10CC9", <<"U+10C89">>>>,
      <<"U+10CCA", <<"U+10C8A">>>>, <<"U+10CCB", <<"U+10C8B">>>>, <<"U+10CCC", <<"U+10C8C">>>>,
      <<"U+10CCD", <<"U+10C8D">>>>, <<"U+10CCE", <<"U+10C8E">>>>, <<"U+10CCF", <<"U+10C8F">>>>,
      <<"U+10CD0", <<"U+10C90">>>>, <<"U+10CD1", <<"U+10C91">>>>, <<"U+10CD2", <<"U+10C92">>>>,
      <<"U+10CD3", <<"U+10C93">>>>, <<"U+10CD4", <<"U+10C94">>>>, <<"U+10CD5", <<"U+10C95">>>>,
      <<"U+10CD6", <<"U+10C96">>>>, <<"U+10CD7", <<"U+10C97">>>>, <<"U+10CD8", <<"U+10C98">>>>,
      <<"U+10CD9", <<"U+10C99">>>>, <<"U+10CDA", <<"U+10C9A">>>>, <<"U+10CDB", <<"U+10C9B">>>>,
      <<"U+10CDC", <<"U+10C9C">>>>, <<"U+10CDD", <<"U+10C9D">>>>, <<"U+10CDE", <<"U+10C9E">>>>,
      <<"U+10CDF", <<"U+10C9F">>>>, <<"U+10CE0", <<"U+10CA0">>>>, <<"U+10CE1", <<"U+10CA1">>>>,
      <<"U+10CE2", <<"U+10CA2">>>>, <<"U+10CE3", <<"U+10CA3">>>>, <<"U+10CE4", <<"U+10CA4">>>>,
      <<"U+10CE5", <<"U+10CA5">>>>, <<"U+10CE6", <<"U+10CA6">>>>, <<"U+10CE7", <<"U+10CA7">>>>,
      <<"U+10CE8", <<"U+10CA8">>>>, <<"U+10CE9", <<"U+10CA9">>>>, <<"U+10CEA", <<"U+10CAA">>>>,
      <<"U+10CEB", <<"U+10CAB">>>>, <<"U+10CEC", <<"U+10CAC">>>>, <<"U+10CED", <<"U+10CAD">>>>,
      <<"U+10CEE", <<"U+10CAE">>>>, <<"U+10CEF", <<"U+10CAF">>>>, <<"U+10CF0", <<"U+10CB0">>>>,
      <<"U+10CF1", <<"U+10CB1">>>>, <<"U+10CF2", <<"U+10CB2">>>>, <<"U+118C0", <<"U+118A0">>>>,
      <<"U+118C1", <<"U+118A1">>>>, <<"U+118C2", <<"U+118A2">>>>, <<"U+118C3", <<"U+118A3">>>>,
      <<"U+118C4", <<"U+118A4">>>>, <<"U+118C5", <<"U+118A5">>>>, <<"U+118C6", <<"U+118A6">>>>,
      <<"U+118C7", <<"U+118A7">>>>, <<"U+118C8", <<"U+118A8">>>>, <<"U+118C9", <<"U+118A9">>>>,
      <<"U+118CA", <<"U+118AA">>>>, <<"U+118CB", <<"U+118AB">>>>, <<"U+118CC", <<"U+118AC">>>>,
      <<"U+118CD", <<"U+118AD">>>>, <<"U+118CE", <<"U+118AE">>>>, <<"U+118CF", <<"U+118AF">>>>,
      <<"U+118D0", <<"U+118B0">>>>, <<"U+118D1", <<"U+118B1">>>>, <<"U+118D2", <<"U+118B2">>>>,
      <<"U+118D3", <<"U+118B3">>>>, <<"U+118D4", <<"U+118B4">>>>, <<"U+118D5", <<"U+118B5">>>>,
      <<"U+118D6", <<"U+118B6">>>>, <<"U+118D7", <<"U+118B7">>>>, <<"U+118D8", <<"U+118B8">>>>,
      <<"U+118D9", <<"U+118B9">>>>, <<"U+118DA", <<"U+118BA">>>>, <<"U+118DB", <<"U+118BB">>>>,
      <<"U+118DC", <<"U+118BC">>>>, <<"U+118DD", <<"U+118BD">>>>, <<"U+118DE", <<"U+118BE">>>>,
      <<"U+118DF", <<"U+118BF">>>>, <<"U+16E60", <<"U+16E40">>>>, <<"U+16E61", <<"U+16E41">>>>,
      <<"U+16E62", <<"U+16E42">>>>, <<"U+16E63", <<"U+16E43">>>>, <<"U+16E64", <<"U+16E44">>>>,
      <<"U+16E65", <<"U+16E45">>>>, <<"U+16E66", <<"U+16E46">>>>, <<"U+16E67", <<"U+16E47">>>>,
      <<"U+16E68", <<"U+16E48">>>>, <<"U+16E69", <<"U+16E49">>>>, <<"U+16E6A", <<"U+16E4A">>>>,
      <<"U+16E6B", <<"U+16E4B">>>>, <<"U+16E6C", <<"U+16E4C">>>>, <<"U+16E6D", <<"U+16E4D">>>>,
      <<"U+16E6E", <<"U+16E4E">>>>, <<"U+16E6F", <<"U+16E4F">>>>, <<"U+16E70", <<"U+16E50">>>>,
      <<"U+16E71", <<"U+16E51">>>>, <<"U+16E72", <<"U+16E52">>>>, <<"U+16E73", <<"U+16E53">>>>,
      <<"U+16E74", <<"U+16E54">>>>, <<"U+16E75", <<"U+16E55">>>>, <<"U+16E76", <<"U+16E56">>>>,
      <<"U+16E77", <<"U+16E57">>>>, <<"U+16E78", <<"U+16E58">>>>, <<"U+16E79", <<"U+16E59">>>>,
      <<"U+16E7A", <<"U+16E5A">>>>, <<"U+16E7B", <<"U+16E5B">>>>, <<"U+16E7C", <<"U+16E5C">>>>,
      <<"U+16E7D", <<"U+16E5D">>>>, <<"U+16E7E", <<"U+16E5E">>>>, <<"U+16E7F", <<"U+16E5F">>>>,
      <<"U+1E922", <<"U+1E900">>>>, <<"U+1E923", <<"U+1E901">>>>, <<"U+1E924", <<"U+1E902">>>>,
      <<"U+1E925", <<"U+1E903">>>>, <<"U+1E926", <<"U+1E904">>>>, <<"U+1E927", <<"U+1E905">>>>,
      <<"U+1E928", <<"U+1E906">>>>, <<"U+1E929", <<"U+1E907">>>>, <<"U+1E92A", <<"U+1E908">>>>,
      <<"U+1E92B", <<"U+1E909">>>>, <<"U+1E92C", <<"U+1E90A">>>>, <<"U+1E92D", <<"U+1E90B">>>>,
      <<"U+1E92E", <<"U+1E90C">>>>, <<"U+1E92F", <<"U+1E90D">>>>, <<"U+1E930", <<"U+1E90E">>>>,
      <<"U+1E931", <<"U+1E90F">>>>, <<"U+1E932", <<"U+1E910">>>>, <<"U+1E933", <<"U+1E911">>>>,
      <<"U+1E934", <<"U+1E912">>>>, <<"U+1E935", <<"U+1E913">>>>, <<"U+1E936", <<"U+1E914">>>>,
      <<"U+1E937", <<"U+1E915">>>>, <<"U+1E938", <<"U+1E916">>>>, <<"U+1E939", <<"U+1E917">>>>,
      <<"U+1E93A", <<"U+1E918">>>>, <<"U+1E93B", <<"U+1E919">>>>, <<"U+1E93C", <<"U+1E91A">>>>,
      <<"U+1E93D", <<"U+1E91B">>>>, <<"U+1E93E", <<"U+1E91C">>>>, <<"U+1E93F", <<"U+1E91D">>>>,
      <<"U+1E940", <<"U+1E91E">>>>, <<"U+1E941", <<"U+1E91F">>>>, <<"U+1E942", <<"U+1E920">>>>,
      <<"U+1E943", <<"U+1E921">>>>>>

CasedCharacters == {UpperPairs[k][1] : k \in DOMAIN UpperPairs}

UpperOf ==
    [c \in CasedCharacters |->
       UpperPairs[CHOOSE k \in DOMAIN UpperPairs : UpperPairs[k][1] = c][2]]

\* str.upper() on one character
UpperChar(c) == IF c \in CasedCharacters THEN UpperOf[c] ELSE <<c>>

\* ''.join(parts)
RECURSIVE concatenated(_)
concatenated(parts) ==
    IF parts = <<>> THEN <<>> ELSE Head(parts) \o concatenated(Tail(parts))

\* mutant of upper: the letters are left as typed
upper_as_typed(s) == s

\* str.upper(): the characters are converted one by one
upper(s) == concatenated([k \in 1..Len(s) |-> UpperChar(s[k])])

\* str.strip(): leading and trailing whitespace removed
RECURSIVE strip(_)
strip(s) ==
    IF s = <<>> THEN s
    ELSE IF Head(s) \in Whitespace THEN strip(Tail(s))
    ELSE IF s[Len(s)] \in Whitespace THEN strip(SubSeq(s, 1, Len(s) - 1))
    ELSE s

\* str.rfind(c) + 1: the last position of c in p, 0 when absent
RFind(p, c) ==
    IF \E k \in 1..Len(p) : p[k] = c
    THEN CHOOSE k \in 1..Len(p) : p[k] = c /\ \A j \in (k + 1)..Len(p) : p[j] # c
    ELSE 0

\* the modules os.path can be: posixpath, and ntpath on Windows
PathModules == {"posixpath", "ntpath"}

\* the end of the last path separator of p: '/' in posixpath, the later of
\* '\' and '/' in ntpath
LastSeparator(p, path_module) ==
    IF path_module = "ntpath" /\ RFind(p, "\\") > RFind(p, "/") THEN RFind(p, "\\")
    ELSE RFind(p, "/")

\* os.path.splitext: the extension starts at the last dot of the last path
\* component, unless that component has only leading dots before it
splitext(p, path_module) ==
    LET sep == LastSeparator(p, path_module)
        dot == RFind(p, ".")
    IN IF dot > sep /\ \E k \in (sep + 1)..(dot - 1) : p[k] # "."
       THEN <<SubSeq(p, 1, dot - 1), SubSeq(p, dot, Len(p))>>
       ELSE <<p, <<>>>>

(***************************************************************************)
(* generate_filename.                                                      *)
(***************************************************************************)
\* str.replace(old, new) for a non-empty old: leftmost, non-overlapping
RECURSIVE replace(_, _, _)
replace(s, old, new) ==
    IF Len(s) < Len(old) THEN s
    ELSE IF SubSeq(s, 1, Len(old)) = old
    THEN new \o replace(SubSeq(s, Len(old) + 1, Len(s)), old, new)
    ELSE <<Head(s)>> \o replace(Tail(s), old, new)

\* "_".join(parts)
RECURSIVE join(_)
join(parts) ==
    IF Len(parts) = 0 THEN <<>>
    ELSE IF Len(parts) = 1 THEN parts[1]
    ELSE parts[1] \o <<"_">> \o join(Tail(parts))

\* mutant of clean_timeframe: 'month' is shortened to a small 'm'
clean_timeframe_small_month(timeframe) ==
    LET a == replace(timeframe, <<" ">>, <<>>)
        b == replace(a, <<"s", "e", "c", "s">>, <<"s">>)
        c == replace(b, <<"m", "i", "n", "s">>, <<"m">>)
        d == replace(c, <<"m", "i", "n">>, <<"m">>)
        e == replace(d, <<"h", "o", "u", "r">>, <<"h">>)
        f == replace(e, <<"d", "a", "y">>, <<"d">>)
        g == replace(f, <<"w", "e", "e", "k">>, <<"w">>)
    IN replace(g, <<"m", "o", "n", "t", "h">>, <<"m">>)

\* lines 391-392
clean_timeframe(timeframe) ==
    LET a == replace(timeframe, <<" ">>, <<>>)
        b == replace(a, <<"s", "e", "c", "s">>, <<"s">>)
        c == replace(b, <<"m", "i", "n", "s">>, <<"m">>)
        d == replace(c, <<"m", "i", "n">>, <<"m">>)
        e == replace(d, <<"h", "o", "u", "r">>, <<"h">>)
        f == replace(e, <<"d", "a", "y">>, <<"d">>)
        g == replace(f, <<"w", "e", "e", "k">>, <<"w">>)
    IN replace(g, <<"m", "o", "n", "t", "h">>, <<"M">>)

generate_filename(symbol, security_type, duration, timeframe, future_contract_month, include_extended_hours) ==
    LET duration_clean == replace(duration, <<" ">>, <<>>)
        head == <<upper(symbol), security_type>>
        month == IF security_type = <<"F", "U", "T">> /\ future_contract_month # None
                    /\ future_contract_month # <<>>
                 THEN <<future_contract_month>> ELSE <<>>
        eth == IF include_extended_hours THEN <<<<"E", "T", "H">>>> ELSE <<>>
    IN join(head \o month \o <<duration_clean, clean_timeframe(timeframe)>>
              \o eth \o <<<<"O", "H", "L", "C", "V">>>>) \o <<".", "c", "s", "v">>

(***************************************************************************)
(* generate_unique_filename and the typed exception handlers.              *)
(***************************************************************************)
\* f"{name_part}_{timestamp}{ext}"
timestamp_filename(base_filename, timestamp, path_module) ==
    splitext(base_filename, path_module)[1] \o <<"_">> \o timestamp
      \o splitext(base_filename, path_module)[2]

\* mutant of counter_filename: the counter is not padded to two digits
counter_filename_unpadded(base_filename, timestamp, counter, path_module) ==
    splitext(base_filename, path_module)[1] \o <<"_">> \o timestamp \o <<"_">>
      \o IntToStr(counter) \o splitext(base_filename, path_module)[2]

\* f"{name_part}_{timestamp}_{counter:02d}{ext}"
counter_filename(base_filename, timestamp, counter, path_module) ==
    splitext(base_filename, path_module)[1] \o <<"_">> \o timestamp \o <<"_">>
      \o Fmt(counter, 2) \o splitext(base_filename, path_module)[2]

\* the exception classes of builtins (Python 3.11), each with its direct
\* base classes
BuiltinExceptions ==
    <<<<"ArithmeticError", {"Exception"}>>, <<"AssertionError", {"Exception"}>>,
      <<"AttributeError", {"Exception"}>>, <<"BaseException", {}>>,
      <<"BaseExceptionGroup", {"BaseException"}>>, <<"BlockingIOError", {"OSError"}>>,
      <<"BrokenPipeError", {"ConnectionError"}>>, <<"BufferError", {"Exception"}>>,
      <<"BytesWarning", {"Warning"}>>, <<"ChildProcessError", {"OSError"}>>,
      <<"ConnectionAbortedError", {"ConnectionError"}>>, <<"ConnectionError", {"OSError"}>>,
      <<"ConnectionRefusedError", {"ConnectionError"}>>,
      <<"ConnectionResetError", {"ConnectionError"}>>, <<"DeprecationWarning", {"Warning"}>>,
      <<"EOFError", {"Exception"}>>, <<"EncodingWarning", {"Warning"}>>,
      <<"Exception", {"BaseException"}>>,
      <<"ExceptionGroup", {"BaseExceptionGroup", "Exception"}>>,
      <<"FileExistsError", {"OSError"}>>, <<"FileNotFoundError", {"OSError"}>>,
      <<"FloatingPointError", {"ArithmeticError"}>>, <<"FutureWarning", {"Warning"}>>,
      <<"GeneratorExit", {"BaseException"}>>, <<"ImportError", {"Exception"}>>,
      <<"ImportWarning", {"Warning"}>>, <<"IndentationError", {"SyntaxError"}>>,
      <<"IndexError", {"LookupError"}>>, <<"InterruptedError", {"OSError"}>>,
      <<"IsADirectoryError", {"OSError"}>>, <<"KeyError", {"LookupError"}>>,
      <<"KeyboardInterrupt", {"BaseException"}>>, <<"LookupError", {"Exception"}>>,
      <<"MemoryError", {"Exception"}>>, <<"ModuleNotFoundError", {"ImportError"}>>,
      <<"NameError", {"Exception"}>>, <<"NotADirectoryError", {"OSError"}>>,
      <<"NotImplementedError", {"RuntimeError"}>>, <<"OSError", {"Exception"}>>,
      <<"OverflowError", {"ArithmeticError"}>>, <<"PendingDeprecationWarning", {"Warning"}>>,
      <<"PermissionError", {"OSError"}>>, <<"ProcessLookupError", {"OSError"}>>,
      <<"RecursionError", {"RuntimeError"}>>, <<"ReferenceError", {"Exception"}>>,
      <<"ResourceWarning", {"Warning"}>>, <<"RuntimeError", {"Exception"}>>,
      <<"RuntimeWarning", {"Warning"}>>, <<"StopAsyncIteration", {"Exception"}>>,
      <<"StopIteration", {"Exception"}>>, <<"SyntaxError", {"Exception"}>>,
      <<"SyntaxWarning", {"Warning"}>>, <<"SystemError", {"Exception"}>>,
      <<"SystemExit", {"BaseException"}>>, <<"TabError", {"IndentationError"}>>,
      <<"TimeoutError", {"OSError"}>>, <<"TypeError", {"Exception"}>>,
      <<"UnboundLocalError", {"NameError"}>>, <<"UnicodeDecodeError", {"UnicodeError"}>>,
      <<"UnicodeEncodeError", {"UnicodeError"}>>, <<"UnicodeError", {"ValueError"}>>,
      <<"UnicodeTranslateError", {"UnicodeError"}>>, <<"UnicodeWarning", {"Warning"}>>,
      <<"UserWarning", {"Warning"}>>, <<"ValueError", {"Exception"}>>,
      <<"Warning", {"Exception"}>>, <<"ZeroDivisionError", {"ArithmeticError"}>>>>

\* exception classes of the libraries: pytz.exceptions (Error, InvalidTimeError,
\* AmbiguousTimeError, NonExistentTimeError, UnknownTimeZoneError), pandas
\* (OutOfBoundsDatetime), json, asyncio, io, zoneinfo, ssl, statistics and
\* ipaddress
LibraryExceptions ==
    <<<<"Error", {"Exception"}>>, <<"InvalidTimeError", {"Error"}>>,
      <<"AmbiguousTimeError", {"InvalidTimeError"}>>,
      <<"NonExistentTimeError", {"InvalidTimeError"}>>,
      <<"UnknownTimeZoneError", {"KeyError", "Error"}>>,
      <<"OutOfBoundsDatetime", {"ValueError"}>>, <<"JSONDecodeError", {"ValueError"}>>,
      <<"CancelledError", {"BaseException"}>>, <<"InvalidStateError", {"Exception"}>>,
      <<"IncompleteReadError", {"EOFError"}>>,
      <<"UnsupportedOperation", {"OSError", "ValueError"}>>,
      <<"ZoneInfoNotFoundError", {"KeyError"}>>, <<"SSLError", {"OSError"}>>,
      <<"SSLCertVerificationError", {"SSLError", "ValueError"}>>,
      <<"StatisticsError", {"ValueError"}>>, <<"AddressValueError", {"ValueError"}>>,
      <<"NetmaskValueError", {"ValueError"}>>>>

ExceptionTable == BuiltinExceptions \o LibraryExceptions

ExceptionClasses == {ExceptionTable[k][1] : k \in DOMAIN ExceptionTable}

\* cls.__bases__, without object
BasesOf ==
    [cls \in ExceptionClasses |->
       ExceptionTable[CHOOSE k \in DOMAIN ExceptionTable : ExceptionTable[k][1] = cls][2]]

\* issubclass(cls, base)
RECURSIVE issubclass(_, _)
issubclass(cls, base) ==
    \/ cls = base
    \/ \E b \in BasesOf[cls] : issubclass(b, base)

\* the classes of cls.__mro__, without object
Ancestors ==
    [cls \in ExceptionClasses |-> {base \in ExceptionClasses : issubclass(cls, base)}]

\* the except clause of fetch_and_save_historical_data, lines 718-727, that
\* catches an exception whose class has the given classes in its __mro__: the
\* first clause that names one of them
catching_clause(mro) ==
    IF "ConnectionRefusedError" \in mro THEN "connection_refused"
    ELSE IF "TimeoutError" \in mro THEN "timeout"
    ELSE IF "LookupError" \in mro \/ "ValueError" \in mro THEN "lookup_or_value"
    ELSE IF "Exception" \in mro THEN "unexpected"
    ELSE "uncaught"

\* the clause that catches an exception of class exc
except_clause(exc) == catching_clause(Ancestors[exc])

(***************************************************************************)
(* Time zones and the date column of the output table.  A timestamp of the *)
(* provider is a UTC instant; a cell of the table is written as text.      *)
(***************************************************************************)
\* date.weekday(): Monday is 0
weekday(dt) == (toordinal(dt) + 6) % 7

\* the day of the month of the n-th Sunday of a month
nth_sunday(y, m, n) ==
    1 + ((6 - weekday([year |-> y, month |-> m, day |-> 1])) % 7) + 7 * (n - 1)

\* dt - timedelta(days=1)
sub_one_day(dt) ==
    IF dt.day > 1 THEN [dt EXCEPT !.day = dt.day - 1]
    ELSE IF dt.month > 1
    THEN [dt EXCEPT !.month = dt.month - 1,
                    !.day = days_in_month(dt.year, dt.month - 1)]
    ELSE [dt EXCEPT !.year = dt.year - 1, !.month = 12, !.day = 31]

with_minutes(dt, total) == [dt EXCEPT !.hour = total \div 60, !.minute = total % 60]

\* dt + timedelta(minutes=minutes) for an offset of less than a day
shifted(dt, total) ==
    IF total < 0 THEN with_minutes(sub_one_day(dt), total + 1440)
    ELSE IF total >= 1440 THEN with_minutes(add_one_day(dt).dt, total - 1440)
    ELSE with_minutes(dt, total)

shift_minutes(dt, minutes) == shifted(dt, dt.hour * 60 + dt.minute + minutes)

\* the day of the month of the last Sunday of a month
last_sunday(y, m) ==
    days_in_month(y, m)
      - ((weekday([year |-> y, month |-> m, day |-> days_in_month(y, m)]) + 1) % 7)

\* month, day and hour as one number, in the order of time within a year
year_key(month_day, hour) == month_day[1] * 10000 + month_day[2] * 100 + hour

NoDaylightTime == <<13, 1>>

\* the transition table of pytz US/Eastern: the month and day daylight time
\* starts, at 02:00 standard time.  <<0, 0>> is war time in force since the
\* year before; the table ends with 2037
eastern_dst_start(y) ==
    CASE y \in 2007..2037 -> <<3, nth_sunday(y, 3, 2)>>
      [] y \in 1987..2006 -> <<4, nth_sunday(y, 4, 1)>>
      [] y \in 1976..1986 -> <<4, last_sunday(y, 4)>>
      [] y = 1975 -> <<2, 23>>
      [] y = 1974 -> <<1, 6>>
      [] y \in 1946..1973 -> <<4, last_sunday(y, 4)>>
      [] y \in 1943..1945 -> <<0, 0>>
      [] y = 1942 -> <<2, 9>>
      [] y \in 1921..1941 -> <<4, last_sunday(y, 4)>>
      [] y \in 1918..1920 -> <<3, last_sunday(y, 3)>>
      [] OTHER -> NoDaylightTime

\* the month and day daylight time ends, at 02:00 daylight time
eastern_dst_end(y) ==
    CASE y \in 2007..2037 -> <<11, nth_sunday(y, 11, 1)>>
      [] y \in 1955..2006 -> <<10, last_sunday(y, 10)>>
      [] y \in 1945..1954 -> <<9, last_sunday(y, 9)>>
      [] y \in 1942..1944 -> NoDaylightTime
      [] y \in 1921..1941 -> <<9, last_sunday(y, 9)>>
      [] y \in 1918..1920 -> <<10, last_sunday(y, 10)>>
      [] OTHER -> NoDaylightTime

\* pytz US/Eastern at a UTC instant: daylight time from 07:00 UTC of the
\* day it starts to 06:00 UTC of the day it ends
eastern_is_dst(dt) ==
    /\ year_key(<<dt.month, dt.day>>, dt.hour) >= year_key(eastern_dst_start(dt.year), 7)
    /\ year_key(<<dt.month, dt.day>>, dt.hour) < year_key(eastern_dst_end(dt.year), 6)

\* pytz reads the 32-bit data of the zone file, whose first transition is the
\* earliest 32-bit time, 1901-12-13 20:45:52 UTC: from it on the zone is on
\* standard time, before it on local mean time, which pytz rounds to -4:56
StandardTimeUTC ==
    [year |-> 1901, month |-> 12, day |-> 13, hour |-> 20, minute |-> 45, second |-> 52]

\* the wall clock of that instant on standard time
StandardTimeWall == [StandardTimeUTC EXCEPT !.hour = 15]

\* the wall clock of that instant on local mean time
LocalMeanTimeEnd == [StandardTimeUTC EXCEPT !.hour = 15, !.minute = 49]

\* minutes east of UTC of pytz US/Eastern at a UTC instant
eastern_utcoffset(dt) ==
    IF datetime_gt(StandardTimeUTC, dt) THEN -296
    ELSE IF eastern_is_dst(dt) THEN -240
    ELSE -300

\* the name of daylight time: war time (EWT) from 1942, peace time (EPT) from
\* 1945-08-14 19:00
daylight_name(now) ==
    IF now.year \in 1942..1945
    THEN IF now.year = 1945 /\ year_key(<<now.month, now.day>>, now.hour) >= year_key(<<8, 14>>, 19)
         THEN <<"E", "P", "T">>
         ELSE <<"E", "W", "T">>
    ELSE <<"E", "D", "T">>

\* pytz US/Eastern .tzname(naive): the wall-clock time is localized with
\* is_dst=None, which raises in the skipped hour (02:00 to 03:00 of the day
\* daylight time starts) and in the repeated hour (01:00 to 02:00 of the day
\* it ends, and the four minutes both local mean time and standard time
\* reach around the first transition).  localize looks the zone up a day
\* before and a day after the wall clock, in that order: now - timedelta(days=1)
\* and now + timedelta(days=1) raise OverflowError on the first and on the last
\* day a datetime can hold
eastern_tzname(now) ==
    IF <<now.year, now.month, now.day>> = <<1, 1, 1>> THEN [tag |-> "OverflowError"]
    ELSE IF <<now.year, now.month, now.day>> = <<9999, 12, 31>> THEN [tag |-> "OverflowError"]
    ELSE IF datetime_gt(StandardTimeWall, now) THEN [tag |-> "ok", name |-> <<"L", "M", "T">>]
    ELSE IF datetime_gt(LocalMeanTimeEnd, now) THEN [tag |-> "AmbiguousTimeError"]
    ELSE IF year_key(<<now.month, now.day>>, now.hour) = year_key(eastern_dst_start(now.year), 2)
    THEN [tag |-> "NonExistentTimeError"]
    ELSE IF year_key(<<now.month, now.day>>, now.hour) = year_key(eastern_dst_end(now.year), 1)
    THEN [tag |-> "AmbiguousTimeError"]
    ELSE IF /\ year_key(<<now.month, now.day>>, now.hour) >= year_key(eastern_dst_start(now.year), 3)
            /\ year_key(<<now.month, now.day>>, now.hour) < year_key(eastern_dst_end(now.year), 1)
    THEN [tag |-> "ok", name |-> daylight_name(now)]
    ELSE [tag |-> "ok", name |-> <<"E", "S", "T">>]

UTC == [zone |-> "UTC"]
US_Eastern == [zone |-> "US/Eastern"]

\* line 308: pytz.timezone('UTC').localize(now).astimezone().tzinfo; local_zone
\* is the zone of the machine.  The wall clock is taken for a UTC instant and
\* moved to the zone of the machine: OverflowError when the result lies before
\* 0001-01-01 or after 9999-12-31
local_tzinfo(now, local_zone) ==
    IF /\ <<now.year, now.month, now.day>> = <<9999, 12, 31>>
       /\ now.hour * 60 + now.minute + local_zone.offset >= 1440
    THEN [tag |-> "OverflowError"]
    ELSE IF /\ <<now.year, now.month, now.day>> = <<1, 1, 1>>
            /\ now.hour * 60 + now.minute + local_zone.offset < 0
    THEN [tag |-> "OverflowError"]
    ELSE [tag |-> "ok",
          tzinfo |-> [zone |-> "fixed", name |-> local_zone.name, offset |-> local_zone.offset]]

\* get_target_timezone, lines 305-319, called when datetime.now() is now: the
\* zone, or the exception line 308 raises
get_target_timezone(timezone_choice, symbol, local_zone, now) ==
    IF timezone_choice = <<"U", "T", "C">> THEN [tag |-> "ok", tzinfo |-> UTC]
    ELSE IF timezone_choice = <<"l", "o", "c", "a", "l">> THEN local_tzinfo(now, local_zone)
    ELSE IF timezone_choice = <<"m", "a", "r", "k", "e", "t">> THEN [tag |-> "ok", tzinfo |-> US_Eastern]
    ELSE [tag |-> "ok", tzinfo |-> UTC]

\* target_timezone.tzname(datetime.now())
tzname(target_timezone, now) ==
    IF target_timezone.zone = "UTC" THEN [tag |-> "ok", name |-> <<"U", "T", "C">>]
    ELSE IF target_timezone.zone = "fixed"
    THEN [tag |-> "ok", name |-> target_timezone.name]
    ELSE eastern_tzname(now)

\* lines 616 and 661
tz_abbrev(timezone_choice, target_timezone, now) ==
    IF timezone_choice # <<"U", "T", "C">> THEN tzname(target_timezone, now)
    ELSE [tag |-> "ok", name |-> <<"U", "T", "C">>]

\* minutes east of UTC at a UTC instant
utcoffset(target_timezone, dt) ==
    IF target_timezone.zone = "UTC" THEN 0
    ELSE IF target_timezone.zone = "fixed" THEN target_timezone.offset
    ELSE eastern_utcoffset(dt)

\* convert_datetime_column, lines 334-342, on one UTC timestamp
tz_convert(dt, target_timezone) == shift_minutes(dt, utcoffset(target_timezone, dt))

\* strftime('%Y-%m-%d')
strftime_date(dt) ==
    Fmt(dt.year, 4) \o <<"-">> \o Fmt(dt.month, 2) \o <<"-">> \o Fmt(dt.day, 2)

\* strftime('%Y-%m-%d %H:%M:%S')
strftime_datetime(dt) ==
    strftime_date(dt) \o <<" ">> \o Fmt(dt.hour, 2) \o <<":">> \o Fmt(dt.minute, 2)
      \o <<":">> \o Fmt(dt.second, 2)

strftime_column(dt, is_intraday) ==
    IF is_intraday THEN strftime_datetime(dt) ELSE strftime_date(dt)

\* format_timezone_aware_datetime, lines 345-365
format_timezone_aware_datetime(datetime_series, target_timezone, is_intraday) ==
    [k \in 1..Len(datetime_series) |->
       strftime_column(tz_convert(datetime_series[k], target_timezone), is_intraday)]

\* mutant of is_intraday_timeframe: the hour bars count as daily
is_intraday_timeframe_no_hours(timeframe) ==
    timeframe \in {<<"1", " ", "s", "e", "c", "s">>, <<"5", " ", "s", "e", "c", "s">>, <<"1", "0", " ", "s", "e", "c", "s">>, <<"1", "5", " ", "s", "e", "c", "s">>, <<"3", "0", " ", "s", "e", "c", "s">>, <<"1", " ", "m", "i", "n">>, <<"2", " ", "m", "i", "n", "s">>, <<"3", " ", "m", "i", "n", "s">>, <<"5", " ", "m", "i", "n", "s">>, <<"1", "0", " ", "m", "i", "n", "s">>, <<"1", "5", " ", "m", "i", "n", "s">>, <<"2", "0", " ", "m", "i", "n", "s">>, <<"3", "0", " ", "m", "i", "n", "s">>}

\* is_intraday_timeframe, lines 378-383
is_intraday_timeframe(timeframe) ==
    timeframe \in {<<"1", " ", "s", "e", "c", "s">>, <<"5", " ", "s", "e", "c", "s">>, <<"1", "0", " ", "s", "e", "c", "s">>, <<"1", "5", " ", "s", "e", "c", "s">>, <<"3", "0", " ", "s", "e", "c", "s">>, <<"1", " ", "m", "i", "n">>, <<"2", " ", "m", "i", "n", "s">>, <<"3", " ", "m", "i", "n", "s">>, <<"5", " ", "m", "i", "n", "s">>, <<"1", "0", " ", "m", "i", "n", "s">>, <<"1", "5", " ", "m", "i", "n", "s">>, <<"2", "0", " ", "m", "i", "n", "s">>, <<"3", "0", " ", "m", "i", "n", "s">>, <<"1", " ", "h", "o", "u", "r">>, <<"2", " ", "h", "o", "u", "r", "s">>, <<"3", " ", "h", "o", "u", "r", "s">>, <<"4", " ", "h", "o", "u", "r", "s">>, <<"8", " ", "h", "o", "u", "r", "s">>}

\* lines 659-665
date_column_name(is_intraday, abbrev) ==
    IF is_intraday THEN <<"D", "a", "t", "e", "T", "i", "m", "e", "_">> \o abbrev ELSE <<"D", "a", "t", "e">>

\* the values of a datetime64 column, read from their text
datetime64_values(cells) == [k \in 1..Len(cells) |-> strptime(cells[k], FormatHMS).dt]

\* a date column that pd.to_datetime was not called on
NotRead == [tag |-> "none"]

\* no table before the bars are processed
NoTable == [column |-> None, dtype |-> "none", cells |-> <<>>]

\* the date column of an empty answer
NoDates == [dtype |-> "none", cells |-> <<>>, read |-> NotRead]

\* mutant of unparsed_column: the column that did not parse is emptied
unparsed_column_emptied(column) ==
    [dtype |-> column.dtype, cells |-> [k \in 1..Len(column.cells) |-> <<>>],
     warning |-> TRUE]

\* lines 689-690: the column is left as it is, with a warning
unparsed_column(column) ==
    [dtype |-> column.dtype, cells |-> column.cells, warning |-> TRUE]

formatted_column(datetime_series, target_timezone, is_intraday) ==
    [dtype |-> "object",
     cells |-> format_timezone_aware_datetime(datetime_series, target_timezone, is_intraday),
     warning |-> FALSE]

\* lines 683-690 for the outcome of pd.to_datetime at line 685, which is the
\* library's: the timestamps of the column (tag "dt"), or the ValueError or
\* TypeError it raises, which line 689 catches
parsed_column(column, parsed, target_timezone, is_intraday) ==
    IF parsed.tag = "dt"
    THEN formatted_column(parsed.values, target_timezone, is_intraday)
    ELSE unparsed_column(column)

\* lines 678-691: the date column after formatting; column.read is what
\* pd.to_datetime does with a column of objects
format_date_column(column, target_timezone, is_intraday) ==
    IF column.dtype = "datetime64"
    THEN formatted_column(datetime64_values(column.cells), target_timezone, is_intraday)
    ELSE IF column.dtype = "object"
    THEN parsed_column(column, column.read, target_timezone, is_intraday)
    ELSE [dtype |-> column.dtype, cells |-> column.cells, warning |-> FALSE]

(***************************************************************************)
(* Inputs the model draws from.                                            *)
(***************************************************************************)
Years == 2023..(2023 + NumYears - 1)

MonthDays == {<<1, 1>>, <<1, 15>>, <<2, 28>>, <<2, 29>>, <<12, 31>>}

TimeSuffixes ==
    {<<>>, <<" ", "0", "0", ":", "0", "0">>, <<" ", "0", "0", ":", "0", "0", ":", "0", "0">>, <<" ", "0", "9", ":", "3", "0">>, <<" ", "1", "6", ":", "0", "0", ":", "0", "0">>, <<" ", "2", "3", ":", "5", "9", ":", "5", "9">>}

DateText(y, md) == Fmt(y, 4) \o <<"-">> \o Fmt(md[1], 2) \o <<"-">> \o Fmt(md[2], 2)

OddDateStrings ==
    {<<"9", "9", "9", "9", "-", "1", "2", "-", "3", "1">>, <<"2", "0", "2", "4", "-", "1", "-", "5">>, <<"2", "0", "2", "4", "-", "0", "1", "-", "1", "5", " ", " ", "1", "0", ":", "3", "0">>, <<"2", "0", "2", "4", "-", "1", "3", "-", "0", "1">>,
     <<"2", "0", "2", "4", "/", "0", "1", "/", "1", "5">>, <<"x">>, <<"2", "0", "2", "4", "-", "0", "1", "-", "1", "5", " ", "2", "4", ":", "0", "0">>, <<"2", "0", "2", "4", "-", "0", "1", "-", "1", "5", " ", "1", "0", ":", "3", "0", ":", "6", "0">>,
     <<"2", "0", "2", "4", "-", "0", "1", "-", "1", "5", " ">>,
     \* other whitespace between the date and the time
     <<"2", "0", "2", "4", "-", "0", "1", "-", "1", "5", "\t", "1", "0", ":", "3", "0">>,
     <<"2", "0", "2", "4", "-", "0", "1", "-", "1", "5", " ", "\t", "\r", "1", "0", ":", "3", "0", ":", "0", "0">>,
     \* years below 1000
     <<"0", "8", "1", "2", "-", "0", "7", "-", "0", "4">>,
     <<"0", "8", "1", "2", "-", "1", "2", "-", "3", "1", " ", "0", "3", ":", "0", "4", ":", "0", "5">>,
     \* digits of other scripts: an Arabic-Indic year, an Arabic-Indic digit in
     \* the day and in the month, a fullwidth digit in the hour
     <<"U+0662", "U+0660", "U+0662", "U+0664", "-", "0", "1", "-", "1", "5">>,
     <<"2", "0", "2", "4", "-", "0", "1", "-", "1", "U+0665">>,
     <<"2", "0", "2", "4", "-", "0", "U+0661", "-", "1", "5">>,
     <<"2", "0", "2", "4", "-", "0", "1", "-", "1", "5", " ", "1", "U+FF10", ":", "3", "0">>,
     \* an ideographic space, and a zero width space, before the time
     <<"2", "0", "2", "4", "-", "0", "1", "-", "1", "5", "U+3000", "1", "0", ":", "3", "0">>,
     <<"2", "0", "2", "4", "-", "0", "1", "-", "1", "5", "U+200B", "1", "0", ":", "3", "0">>}

DateStrings ==
    {None, <<>>}
      \cup {DateText(y, md) \o t : y \in Years, md \in MonthDays, t \in TimeSuffixes}
      \cup OddDateStrings

Durations == {None, <<"6", " ", "M">>, <<"1", " ", "X">>}

RunStartDates == {None, <<"2", "0", "2", "4", "-", "0", "1", "-", "1", "5">>, <<"2", "0", "2", "4", "-", "0", "2", "-", "3", "0">>}
RunEndDates == {None, <<"2", "0", "2", "4", "-", "0", "1", "-", "3", "1">>, <<"2", "0", "2", "4", "-", "0", "1", "-", "1", "0">>, <<"9", "9", "9", "9", "-", "1", "2", "-", "3", "1">>}
RunDurations == {None, <<"3", "0", " ", "D">>}

Clock(y, mo, d, h, mi, s) ==
    [year |-> y, month |-> mo, day |-> d, hour |-> h, minute |-> mi, second |-> s]

\* values datetime.now() may return
Clocks == {Clock(2024, 2, 29, 9, 30, 15), Clock(2024, 12, 31, 23, 59, 59)}

OutputNames ==
    {None, <<"a", ".", "c", "s", "v">>, <<"d", ".", "x", "/", "b">>, <<"d", ".", "x", "\\", "b">>}

RunSymbols == {None, <<"q", "q", "q">>}
RunTimeframes == {None, <<"5", " ", "m", "i", "n", "s">>}

\* the rename candidates of a path for the first clock value, in trial order
RunTimezones == {<<"m", "a", "r", "k", "e", "t">>, <<"U", "T", "C">>, <<"l", "o", "c", "a", "l">>}

\* values of datetime.now() at lines 616 and 661: standard time, the last
\* hour of daylight time before the repeated hour, the repeated hour, and the
\* last day a datetime can hold
ZoneClocks ==
    {Clock(2024, 2, 29, 9, 30, 15), Clock(2024, 11, 3, 0, 30, 0), Clock(2024, 11, 3, 1, 30, 0),
     Clock(9999, 12, 31, 23, 59, 59)}

\* values of datetime.now() at line 661 for the name of the column: those
\* above, the first and the last day a datetime can hold and the days next
\* to them, local mean time, war time, peace time, the skipped hour, and a
\* summer after the last year of the transition table
ColumnClocks ==
    ZoneClocks \cup
    {Clock(1, 1, 1, 0, 0, 0), Clock(1, 1, 1, 23, 59, 59), Clock(1, 1, 2, 0, 0, 0),
     Clock(9999, 12, 30, 23, 59, 59), Clock(9999, 12, 31, 0, 0, 0),
     Clock(9999, 12, 31, 23, 59, 59), Clock(1890, 7, 4, 12, 0, 0),
     Clock(1943, 7, 4, 12, 0, 0), Clock(1945, 9, 1, 12, 0, 0),
     Clock(2024, 3, 10, 2, 30, 0), Clock(2038, 7, 4, 12, 0, 0)}

\* zones of the machine for the name of the column: east and west of UTC
ColumnZones ==
    {[name |-> <<"C", "E", "T">>, offset |-> 60], [name |-> <<"E", "S", "T">>, offset |-> -300]}

\* the zone of the machine, as astimezone() reports it
LocalZones == {[name |-> <<"C", "E", "T">>, offset |-> 60]}

\* date columns of the bars the provider returns: none; UTC timestamps
\* around the start of daylight time; a date as text; text of which one
\* element is no date.  A column of objects comes with what pd.to_datetime
\* does with it at line 685: pandas is a library outside the program, its
\* parser is not modelled, and the two columns drawn are ones whose outcome
\* does not depend on the layouts a version of pandas accepts: an ISO date is
\* read as midnight of that day, and 'bad' raises ValueError
Batches ==
    {NoDates,
     [dtype |-> "datetime64", cells |-> <<<<"2", "0", "2", "4", "-", "0", "3", "-", "1", "0", " ", "0", "6", ":", "3", "0", ":", "0", "0">>, <<"2", "0", "2", "4", "-", "0", "3", "-", "1", "0", " ", "0", "7", ":", "3", "0", ":", "0", "0">>>>,
      read |-> NotRead],
     [dtype |-> "object", cells |-> <<<<"2", "0", "2", "4", "-", "0", "1", "-", "1", "5">>>>,
      read |-> [tag |-> "dt", values |-> <<Clock(2024, 1, 15, 0, 0, 0)>>]],
     [dtype |-> "object", cells |-> <<<<"2", "0", "2", "4", "-", "0", "1", "-", "1", "6">>, <<"b", "a", "d">>>>,
      read |-> [tag |-> "ValueError"]]}

Candidate(path, k, path_module) ==
    LET ts == strftime_suffix(Clock(2024, 2, 29, 9, 30, 15)) IN
    IF k = 0 THEN timestamp_filename(path, ts, path_module)
    ELSE counter_filename(path, ts, k, path_module)

InitialPaths(path, path_module) ==
    SUBSET ({path} \cup {Candidate(path, k, path_module) : k \in 0..MaxExisting})

Answers ==
    {<<"O">>, <<"o", "v", "e", "r", "w", "r", "U+0131", "t", "e", "\r">>, <<"\t", "r", " ">>, <<"R", "e", "n", "a", "m", "e">>, <<"c">>, <<"U+3000", "C", "A", "N", "C", "E", "L", "\f">>, <<>>, <<"x">>}

ValidChoices == {<<"O">>, <<"O", "V", "E", "R", "W", "R", "I", "T", "E">>, <<"R">>, <<"R", "E", "N", "A", "M", "E">>, <<"C">>, <<"C", "A", "N", "C", "E", "L">>}

(***************************************************************************)
(* State.                                                                  *)
(***************************************************************************)
VARIABLES
    args,               \* arguments of fetch_and_save_historical_data
    os_path,            \* the module os.path is on this machine
    pc,                 \* position in fetch_and_save_historical_data
    today,              \* value read from datetime.now() by the resolver
    end_datetime_str, hist_duration, date_info,
    output_filename,
    connected,          \* ib.isConnected()
    net,                \* calls made on the provider client
    bars,               \* number of bars returned, -1 before the request
    bar_dates,          \* the date attribute of the bars returned
    df_output,          \* the date column of the table to be saved
    prompts,            \* number of input() calls
    answer,             \* last line read by input()
    choice,             \* last normalised answer
    timestamp, unique_filename, counter,    \* generate_unique_filename locals
    final_filename, should_proceed,
    fs,                 \* existing paths and their content
    writes,             \* to_csv calls: path and result
    exc,                \* exception in flight
    outcome,            \* how the call ended
    log,                \* kinds of messages printed
    call,               \* a function applied on its own, with its arguments
    result              \* what that function returned

vars == <<args, pc, today, end_datetime_str, hist_duration, date_info,
          output_filename, connected, net, bars, prompts, choice, timestamp,
          unique_filename, counter, final_filename, should_proceed, fs, writes,
          exc, outcome, log, call, result, bar_dates, df_output, answer, os_path>>

\* what no step of a run changes
input_vars == <<args, os_path, call, result>>
resolver_vars == <<today, end_datetime_str, hist_duration, date_info>>
client_vars == <<connected, net, bars>>
table_vars == <<bar_dates, df_output>>
conflict_vars == <<prompts, answer, choice, timestamp, unique_filename, counter,
                   final_filename, should_proceed>>

exists(path) == path \in DOMAIN fs

\* mutant of conflict_check: the overwrite flag is ignored
conflict_check_no_flag(filename, overwrite_flag) ==
    IF ~exists(filename) THEN "free" ELSE "prompt"

\* handle_file_conflict, lines 462-468: what happens before any prompt
conflict_check(filename, overwrite_flag) ==
    IF ~exists(filename) THEN "free"
    ELSE IF overwrite_flag THEN "overwrite"
    ELSE "prompt"

\* mutant of after_conflict: the caller saves whatever the resolver answered
after_conflict_always_save(proceed) == "save"

\* lines 696-698: the caller returns without saving unless should_proceed
after_conflict(proceed) == IF proceed THEN "save" ELSE "finally"

ArgsOf(sym, tf, s, e, d, eth, out, ow, tz) ==
    [symbol |-> sym, timeframe |-> tf, start_date |-> s, end_date |-> e,
     duration |-> d, include_extended_hours |-> eth, output_filename |-> out,
     overwrite |-> ow, timezone_choice |-> tz]

\* lines 549-550
target_symbol_of(a) == IF a.symbol # None THEN a.symbol ELSE TARGET_SYMBOL

bar_size_of(a) ==
    IF a.timeframe # None THEN a.timeframe ELSE <<"1", " ", "d", "a", "y">>

\* lines 549-551 and 578-580: the file name a run uses for a given duration
OutputNameFor(a, duration_str) ==
    LET target_symbol == target_symbol_of(a)
        bar_size == bar_size_of(a)
        future_month == IF SECURITY_TYPE = <<"F", "U", "T">>
                        THEN FUTURE_LAST_TRADE_DATE_OR_CONTRACT_MONTH ELSE None
    IN IF a.output_filename # None THEN a.output_filename
       ELSE generate_filename(target_symbol, SECURITY_TYPE, duration_str, bar_size,
                              future_month, a.include_extended_hours)

InitRest ==
    /\ pc = "start"
    /\ today = None
    /\ end_datetime_str = None
    /\ hist_duration = None
    /\ date_info = "none"
    /\ output_filename = None
    /\ connected = FALSE
    /\ net = [connect |-> 0, qualify |-> 0, request |-> 0, disconnect |-> 0]
    /\ bars = -1
    /\ bar_dates = NoDates
    /\ df_output = NoTable
    /\ prompts = 0
    /\ answer = None
    /\ choice = None
    /\ timestamp = None
    /\ unique_filename = None
    /\ counter = 0
    /\ final_filename = None
    /\ should_proceed = FALSE
    /\ writes = <<>>
    /\ exc = "none"
    /\ outcome = "running"
    /\ log = {}

\* no function is applied on its own during a run
NoCall ==
    /\ call = [fn |-> "none"]
    /\ result = [tag |-> "none"]

\* a run of the downloader on a file system with some paths present
Init ==
    /\ \E s \in RunStartDates, e \in RunEndDates, d \in RunDurations,
          eth \in BOOLEAN, out \in OutputNames, ow \in BOOLEAN,
          st \in RunSymbols \X RunTimeframes, tz \in RunTimezones :
         /\ (st[1] = None) <=> (st[2] = None)
         /\ out # None => st = <<None, None>>
         /\ st = <<None, None>> => tz = <<"m", "a", "r", "k", "e", "t">>
         /\ args = ArgsOf(st[1], st[2], s, e, d, eth, out, ow, tz)
         \* the two modules split a path without a backslash alike: such a
         \* path is run under posixpath alone
         /\ os_path \in PathModules
         /\ os_path = "ntpath" => out # None /\ RFind(out, "\\") > 0
         /\ \E paths \in InitialPaths(OutputNameFor(args,
                              IF d # None THEN d ELSE HISTORY_DURATION), os_path) :
              fs = [p \in paths |-> "old"]
    /\ InitRest
    /\ NoCall

\* the resolver on every pair of date strings
InitDates ==
    /\ \E s \in DateStrings, e \in DateStrings, d \in Durations, eth \in BOOLEAN :
         args = ArgsOf(None, None, s, e, d, eth, <<"a", ".", "c", "s", "v">>, FALSE,
                       <<"m", "a", "r", "k", "e", "t">>)
    /\ os_path = "posixpath"
    /\ fs = [p \in {} |-> "old"]
    /\ InitRest
    /\ NoCall

(***************************************************************************)
(* fetch_and_save_historical_data, one action per step.                    *)
(***************************************************************************)
\* lines 556-582: what the run does with the resolver's result r
AfterResolve(r) ==
    IF r.status = "ok" THEN
        /\ end_datetime_str' = r.end_datetime_str
        /\ hist_duration' = r.duration_str
        /\ date_info' = r.mode
        /\ output_filename' = OutputNameFor(args, r.duration_str)
        /\ pc' = "connect"
        /\ UNCHANGED <<exc, outcome, log>>
    ELSE IF r.status = "ValueError" THEN
        \* except ValueError: print the error and return
        /\ log' = log \cup {r.message}
        /\ outcome' = "returned"
        /\ pc' = "done"
        /\ UNCHANGED <<end_datetime_str, hist_duration, date_info,
                       output_filename, exc>>
    ELSE
        \* any other exception leaves the function
        /\ exc' = r.status
        /\ outcome' = "raised"
        /\ pc' = "done"
        /\ UNCHANGED <<end_datetime_str, hist_duration, date_info,
                       output_filename, log>>

\* lines 548-582: defaults, process_date_arguments, output file name
ResolveDates ==
    /\ pc = "start"
    /\ \E clock \in Clocks, pads_year \in YearPadding :
         /\ today' = IF (args.start_date = None \/ args.start_date = <<>>)
                        /\ (args.end_date = None \/ args.end_date = <<>>)
                      THEN clock ELSE today
         /\ AfterResolve(process_date_arguments(
                args.start_date, args.end_date,
                IF args.duration # None THEN args.duration ELSE HISTORY_DURATION,
                args.include_extended_hours, clock, pads_year))
    /\ UNCHANGED <<input_vars, table_vars, client_vars, conflict_vars, fs,
                   writes>>

\* lines 586-588: ib.connect
Connect ==
    /\ pc = "connect"
    /\ \E r \in {"ok", "ConnectionRefusedError", "TimeoutError"} :
         /\ net' = [net EXCEPT !.connect = @ + 1]
         /\ IF r = "ok"
            THEN connected' = TRUE /\ pc' = "qualify" /\ UNCHANGED exc
            ELSE exc' = r /\ pc' = "except" /\ UNCHANGED connected
    /\ UNCHANGED <<input_vars, table_vars, resolver_vars, output_filename, bars,
                   conflict_vars, fs, writes, outcome, log>>

\* lines 590-601: create_contract and ib.qualifyContracts
QualifyContract ==
    /\ pc = "qualify"
    /\ \E r \in {"ok", "empty", "ConnectionError"} :
         /\ net' = [net EXCEPT !.qualify = @ + 1]
         /\ IF r = "ok" THEN pc' = "request" /\ UNCHANGED exc
            ELSE IF r = "empty" THEN exc' = "LookupError" /\ pc' = "except"
            ELSE exc' = r /\ pc' = "except"
    /\ UNCHANGED <<input_vars, table_vars, resolver_vars, output_filename,
                   connected, bars, conflict_vars, fs, writes, outcome, log>>

\* lines 615-616 and 653-661: the zone abbreviation of the target zone, or
\* the exception get_target_timezone raised before tzname was called
zone_abbrev(timezone_choice, target, now) ==
    IF target.tag # "ok" THEN [tag |-> target.tag]
    ELSE tz_abbrev(timezone_choice, target.tzinfo, now)

\* the target zone of a run
target_zone(a, now, local_zone) ==
    get_target_timezone(a.timezone_choice, target_symbol_of(a), local_zone, now)

\* lines 615-616: the zone abbreviation printed for an intraday bar size
announced_zone(a, now, local_zone) ==
    zone_abbrev(a.timezone_choice, target_zone(a, now, local_zone), now)

\* lines 603-632: the request summary and ib.reqHistoricalData
RequestHistoricalData ==
    /\ pc = "request"
    /\ \E now \in ZoneClocks, local_zone \in LocalZones :
         IF is_intraday_timeframe(bar_size_of(args))
            /\ announced_zone(args, now, local_zone).tag # "ok"
         THEN /\ exc' = announced_zone(args, now, local_zone).tag
              /\ pc' = "except"
              /\ UNCHANGED <<net, bars, bar_dates>>
         ELSE /\ net' = [net EXCEPT !.request = @ + 1]
              /\ \/ \E b \in Batches :
                      /\ bars' = Len(b.cells)
                      /\ bar_dates' = b
                      /\ pc' = "process"
                      /\ UNCHANGED exc
                 \/ \E e \in {"TimeoutError", "KeyError"} :
                      exc' = e /\ pc' = "except" /\ UNCHANGED <<bars, bar_dates>>
    /\ UNCHANGED <<input_vars, df_output, resolver_vars, output_filename,
                   connected, conflict_vars, fs, writes, outcome, log>>

\* mutant of no_bars: an empty answer is processed like any other
no_bars_ignored(n) == FALSE

\* line 634: not bars
no_bars(n) == n = 0

\* lines 667-691: the table is kept, with the warning when the column did not parse
TableBuilt(name, column) ==
    /\ df_output' = [column |-> name, dtype |-> column.dtype, cells |-> column.cells]
    /\ log' = log \cup {"received"}
                 \cup (IF column.warning THEN {"parse_warning"} ELSE {})
    /\ pc' = "conflict"
    /\ UNCHANGED exc

\* lines 643-691 for the target zone of line 653 and the zone abbreviation
\* read at line 661: get_target_timezone is called for every bar size, tzname
\* for the intraday ones
BuildTable(is_intraday, target, abbrev) ==
    IF target.tag # "ok" \/ (is_intraday /\ abbrev.tag # "ok")
    THEN /\ exc' = IF target.tag # "ok" THEN target.tag ELSE abbrev.tag
         /\ log' = log \cup {"received"}
         /\ pc' = "except"
         /\ UNCHANGED df_output
    ELSE TableBuilt(date_column_name(is_intraday, IF is_intraday THEN abbrev.name ELSE <<>>),
                    format_date_column(bar_dates, target.tzinfo, is_intraday))

\* lines 634-691: no bars ends the run, otherwise the table is built
ProcessBars ==
    /\ pc = "process"
    /\ IF no_bars(bars)
       THEN /\ log' = log \cup {"no_data"}
            /\ pc' = "finally"
            /\ UNCHANGED <<df_output, exc>>
       ELSE \E now \in ZoneClocks, local_zone \in LocalZones :
              BuildTable(is_intraday_timeframe(bar_size_of(args)),
                         target_zone(args, now, local_zone),
                         announced_zone(args, now, local_zone))
    /\ UNCHANGED <<input_vars, bar_dates, resolver_vars, output_filename,
                   client_vars, conflict_vars, fs, writes, outcome>>

\* handle_file_conflict, lines 462-486: the checks before the prompt
HandleFileConflict ==
    /\ pc = "conflict"
    /\ IF conflict_check(output_filename, args.overwrite) = "free" THEN
           /\ final_filename' = output_filename
           /\ should_proceed' = TRUE
           /\ pc' = after_conflict(TRUE)
           /\ UNCHANGED log
       ELSE IF conflict_check(output_filename, args.overwrite) = "overwrite" THEN
           /\ final_filename' = output_filename
           /\ should_proceed' = TRUE
           /\ pc' = after_conflict(TRUE)
           /\ log' = log \cup {"overwriting"}
       ELSE
           /\ pc' = "prompt"
           /\ log' = log \cup {"conflict"}
           /\ UNCHANGED <<final_filename, should_proceed>>
    /\ UNCHANGED <<input_vars, table_vars, resolver_vars, output_filename,
                   client_vars, prompts, answer, choice, timestamp,
                   unique_filename, counter, fs, writes, exc, outcome>>

\* handle_file_conflict, lines 489-503: one pass of the prompt loop; a rename
\* enters generate_unique_filename (lines 428-441); a cancel returns through
\* lines 696-698
PromptChoice ==
    /\ pc = "prompt"
    /\ prompts < MaxPrompts
    /\ \E line \in Answers, clock \in Clocks :
         LET c == upper(strip(line)) IN
         /\ c \in ValidChoices \/ prompts + 1 < MaxPrompts
         /\ prompts' = prompts + 1
         /\ answer' = line
         /\ choice' = c
         /\ IF c \in {<<"O">>, <<"O", "V", "E", "R", "W", "R", "I", "T", "E">>} THEN
                /\ final_filename' = output_filename
                /\ should_proceed' = TRUE
                /\ pc' = after_conflict(TRUE)
                /\ log' = log \cup {"overwriting"}
                /\ UNCHANGED <<timestamp, unique_filename, counter>>
            ELSE IF c \in {<<"R">>, <<"R", "E", "N", "A", "M", "E">>} THEN
                IF ~exists(output_filename) THEN
                    /\ final_filename' = output_filename
                    /\ should_proceed' = TRUE
                    /\ pc' = after_conflict(TRUE)
                    /\ log' = log \cup {"creating"}
                    /\ UNCHANGED <<timestamp, unique_filename, counter>>
                ELSE
                    /\ timestamp' = strftime_suffix(clock)
                    /\ unique_filename' =
                           timestamp_filename(output_filename, strftime_suffix(clock), os_path)
                    /\ counter' = 1
                    /\ pc' = "rename_loop"
                    /\ UNCHANGED <<final_filename, should_proceed, log>>
            ELSE IF c \in {<<"C">>, <<"C", "A", "N", "C", "E", "L">>} THEN
                /\ final_filename' = output_filename
                /\ should_proceed' = FALSE
                /\ pc' = after_conflict(FALSE)
                /\ log' = log \cup {"cancelled"}
                /\ UNCHANGED <<timestamp, unique_filename, counter>>
            ELSE
                /\ log' = log \cup {"invalid_choice"}
                /\ pc' = "prompt"
                /\ UNCHANGED <<timestamp, unique_filename, counter,
                               final_filename, should_proceed>>
    /\ UNCHANGED <<input_vars, table_vars, resolver_vars, output_filename,
                   client_vars, fs, writes, exc, outcome>>

\* input() raises instead of returning an answer
PromptRaises ==
    /\ pc = "prompt"
    /\ prompts < MaxPrompts
    /\ \E e \in {"EOFError", "KeyboardInterrupt"} : exc' = e
    /\ prompts' = prompts + 1
    /\ pc' = "except"
    /\ UNCHANGED <<input_vars, table_vars, resolver_vars, output_filename,
                   client_vars, answer, choice, timestamp, unique_filename,
                   counter, final_filename, should_proceed, fs, writes, outcome,
                   log>>

\* generate_unique_filename, lines 442-446, then lines 497-498
RenameLoop ==
    /\ pc = "rename_loop"
    /\ IF exists(unique_filename) THEN
           /\ unique_filename' = counter_filename(output_filename, timestamp, counter, os_path)
           /\ counter' = counter + 1
           /\ UNCHANGED <<final_filename, should_proceed, pc, log>>
       ELSE
           /\ final_filename' = unique_filename
           /\ should_proceed' = TRUE
           /\ pc' = after_conflict(TRUE)
           /\ log' = log \cup {"creating"}
           /\ UNCHANGED <<unique_filename, counter>>
    /\ UNCHANGED <<input_vars, table_vars, resolver_vars, output_filename,
                   client_vars, prompts, answer, choice, timestamp, fs, writes,
                   exc, outcome>>

\* lines 700-714: df_output.to_csv
SaveCsv ==
    /\ pc = "save"
    /\ \E r \in {"ok", "PermissionError", "FileNotFoundError"} :
         /\ writes' = Append(writes, [path |-> final_filename, result |-> r,
                                      column |-> df_output.column,
                                      rows |-> df_output.cells])
         /\ IF r = "ok" THEN
                /\ fs' = [p \in DOMAIN fs \cup {final_filename} |->
                            IF p = final_filename THEN "csv" ELSE fs[p]]
                /\ log' = log \cup {"SUCCESS"}
                /\ pc' = "finally"
                /\ UNCHANGED exc
            ELSE IF r = "PermissionError" THEN
                /\ log' = log \cup {"permission_guidance"}
                /\ exc' = r
                /\ pc' = "except"
                /\ UNCHANGED fs
            ELSE
                /\ exc' = r
                /\ pc' = "except"
                /\ UNCHANGED <<fs, log>>
    /\ UNCHANGED <<input_vars, table_vars, resolver_vars, output_filename,
                   client_vars, conflict_vars, outcome>>

\* mutant of after_exception: a timeout goes back to the data request
after_exception_retry(e) == IF e = "TimeoutError" THEN "request" ELSE "finally"

\* lines 718-728: every except clause falls through to the finally block
after_exception(e) == "finally"

\* lines 718-727: the except clauses; each prints and swallows the exception
HandleException ==
    /\ pc = "except"
    /\ IF except_clause(exc) = "uncaught"
       THEN UNCHANGED <<exc, log>>
       ELSE exc' = "none" /\ log' = log \cup {except_clause(exc)}
    /\ pc' = after_exception(exc)
    /\ UNCHANGED <<input_vars, table_vars, resolver_vars, output_filename,
                   client_vars, conflict_vars, fs, writes, outcome>>

\* mutant of isConnected: the finally block sees no connection
isConnected_never(c) == FALSE

\* line 729: ib.isConnected()
isConnected(c) == c

\* lines 728-734: disconnect when connected, then leave the function
Finally ==
    /\ pc = "finally"
    /\ IF isConnected(connected)
       THEN connected' = FALSE /\ net' = [net EXCEPT !.disconnect = @ + 1]
       ELSE UNCHANGED <<connected, net>>
    /\ outcome' = IF exc = "none" THEN "returned" ELSE "raised"
    /\ pc' = "done"
    /\ UNCHANGED <<input_vars, table_vars, resolver_vars, output_filename, bars,
                   conflict_vars, fs, writes, exc, log>>

Next ==
    \/ ResolveDates
    \/ Connect
    \/ QualifyContract
    \/ RequestHistoricalData
    \/ ProcessBars
    \/ HandleFileConflict
    \/ PromptChoice
    \/ PromptRaises
    \/ RenameLoop
    \/ SaveCsv
    \/ HandleException
    \/ Finally

Spec == Init /\ [][Next]_vars

NextDates == ResolveDates

SpecDates == InitDates /\ [][NextDates]_vars

TypeOK ==
    /\ pc \in {"start", "connect", "qualify", "request", "process", "conflict",
               "prompt", "rename_loop", "save", "except", "finally", "done"}
    /\ connected \in BOOLEAN
    /\ outcome \in {"running", "returned", "raised"}
    /\ counter \in Nat

(***************************************************************************)
(* Properties of the resolver (checked under SpecDates).                   *)
(***************************************************************************)
FormatIbkr == <<"Y", "m", "d", " ", "H", ":", "M", ":", "S">>

StartArg == parse_date_string(args.start_date)
EndArg == parse_date_string(args.end_date)

\* the date string the end timestamp is derived from
AnchorStr == IF date_info = "single_day" THEN args.start_date ELSE args.end_date

AnchorModes == {"date_range", "single_day", "duration_with_end"}

\* 'YYYY-MM-DD HH:MM' or 'YYYY-MM-DD HH:MM:SS'
HasExplicitTime(str) ==
    strptime(str, FormatHMS).tag = "dt" \/ strptime(str, FormatHM).tag = "dt"

\* 'YYYY-MM-DD'
IsDateOnly(str) == strptime(str, FormatD).tag = "dt"

\* the returned end timestamp, read back as a datetime
EndStamp == strptime(end_datetime_str, FormatIbkr)

SameDate(a, b) == a.year = b.year /\ a.month = b.month /\ a.day = b.day

TimeIs(dt, h, mi, s) == dt.hour = h /\ dt.minute = mi /\ dt.second = s

\* a datetime written as 'YYYYMMDD HH:MM:SS'
StampText(dt) ==
    Fmt(dt.year, 4) \o Fmt(dt.month, 2) \o Fmt(dt.day, 2) \o <<" ">>
      \o Fmt(dt.hour, 2) \o <<":">> \o Fmt(dt.minute, 2) \o <<":">>
      \o Fmt(dt.second, 2)

\* the end timestamp a date without time of day must give
SessionEnd(dt, extended) ==
    /\ EndStamp.tag = "dt"
    /\ end_datetime_str = StampText(EndStamp.dt)
    /\ IF extended
       THEN toordinal(EndStamp.dt) = toordinal(dt) + 1 /\ TimeIs(EndStamp.dt, 2, 0, 0)
       ELSE SameDate(EndStamp.dt, dt) /\ TimeIs(EndStamp.dt, 16, 0, 0)

DefaultDuration == IF args.duration # None THEN args.duration ELSE HISTORY_DURATION

\* '<integer> <unit>' with unit in S, D, W, M, Y
MatchesDurationGrammar(d) ==
    /\ Len(d) >= 3
    /\ d[Len(d)] \in {"S", "D", "W", "M", "Y"}
    /\ d[Len(d) - 1] = " "
    /\ \A k \in 1..(Len(d) - 2) : InRange(d[k], 0, 9)

\* C1: in the DateRange case, with N the number of calendar dates from the
\* start's date to the end's date (both counted), the duration string is
\* "<N> D" when N <= 365 and "<floor(N/365)> Y" when N > 365.
C1_CalendarDayCount ==
    date_info = "date_range" =>
      LET N == toordinal(EndArg.dt) - toordinal(StartArg.dt) + 1 IN
      hist_duration = IF N <= 365 THEN IntToStr(N) \o <<" ", "D">>
                      ELSE IntToStr(N \div 365) \o <<" ", "Y">>

\* C2: an anchor date string that carries an explicit time of day is returned
\* as exactly that date and time, in both session modes.
C2_ExplicitTimeVerbatim ==
    (date_info \in AnchorModes /\ HasExplicitTime(AnchorStr)) =>
      LET a == IF date_info = "single_day" THEN StartArg.dt ELSE EndArg.dt IN
      /\ EndStamp.tag = "dt"
      /\ SameDate(EndStamp.dt, a)
      /\ TimeIs(EndStamp.dt, a.hour, a.minute, a.second)

\* C3: an anchor date without time of day gives 16:00:00 on the same date for
\* the regular session and 02:00:00 on the following calendar date for the
\* extended session, in the DateRange, DurationWithEnd and SingleDay cases:
\* the end timestamp, read as 'YYYYMMDD HH:MM:SS', is that date and time.
C3_DateOnlySessionEnd ==
    (date_info \in AnchorModes /\ IsDateOnly(AnchorStr)) =>
      SessionEnd(strptime(AnchorStr, FormatD).dt, args.include_extended_hours)

\* C4: every successful resolution returns a non-empty end timestamp; with
\* neither date given it is today at 16:00:00 (regular) or the next calendar
\* day at 02:00:00 (extended), and the duration is the default duration.
C4_EndAlwaysSupplied ==
    /\ date_info # "none" => (end_datetime_str # None /\ end_datetime_str # <<>>)
    /\ date_info = "duration_only" =>
         /\ today \in Clocks
         /\ SessionEnd(today, args.include_extended_hours)
         /\ hist_duration = DefaultDuration

C4_Witness ==
    /\ date_info = "duration_only"
    /\ ~args.include_extended_hours
    /\ args.duration = <<"6", " ", "M">>
    /\ hist_duration = <<"6", " ", "M">>
    /\ end_datetime_str = <<"2", "0", "2", "4", "1", "2", "3", "1", " ", "1", "6", ":", "0", "0", ":", "0", "0">>

\* C5: when both dates parse and start is later than end (also on the same
\* date with a later start time) the resolver fails with the invalid-range
\* error and returns nothing; when start equals end that error is not raised
\* and the DateRange result is returned.
C5_InvalidRange ==
    (pc # "start" /\ StartArg.tag = "dt" /\ EndArg.tag = "dt") =>
      LET later ==
              \/ toordinal(StartArg.dt) > toordinal(EndArg.dt)
              \/ /\ toordinal(StartArg.dt) = toordinal(EndArg.dt)
                 /\ seconds_of_day(StartArg.dt) > seconds_of_day(EndArg.dt)
      IN
      /\ later => /\ "start_after_end" \in log
                  /\ outcome = "returned"
                  /\ date_info = "none"
                  /\ end_datetime_str = None
                  /\ hist_duration = None
      /\ StartArg.dt = EndArg.dt =>
           /\ "start_after_end" \notin log
           /\ exc = "none" => date_info = "date_range"

C5_Witness ==
    /\ pc = "done"
    /\ "start_after_end" \in log
    /\ args.start_date = <<"2", "0", "2", "4", "-", "0", "1", "-", "1", "5", " ", "0", "9", ":", "3", "0">>
    /\ args.end_date = <<"2", "0", "2", "4", "-", "0", "1", "-", "1", "5">>

\* C7: whenever the resolver succeeds the returned duration string matches
\* '<integer> <unit>' with unit in S, D, W, M, Y, whatever default duration
\* was passed in.
C7_DurationGrammar ==
    date_info # "none" => MatchesDurationGrammar(hist_duration)

(***************************************************************************)
(* Properties of a run (checked under Spec).                               *)
(***************************************************************************)
NoCalls == [connect |-> 0, qualify |-> 0, request |-> 0, disconnect |-> 0]

\* a non-empty date string that matches none of the accepted formats
Unparseable(str) ==
    /\ str # None
    /\ str # <<>>
    /\ \A f \in {FormatHMS, FormatHM, FormatD} : strptime(str, f).tag # "dt"

\* the date arguments of the runs, each classified once
RunDateArgs == RunStartDates \cup RunEndDates

UnparseableRunDates == {str \in RunDateArgs : Unparseable(str)}

RunDateParsed == [str \in RunDateArgs |-> parse_date_string(str)]

StartLaterThanEnd ==
    LET s == RunDateParsed[args.start_date]
        e == RunDateParsed[args.end_date] IN
    /\ s.tag = "dt"
    /\ e.tag = "dt"
    /\ \/ toordinal(s.dt) > toordinal(e.dt)
       \/ /\ toordinal(s.dt) = toordinal(e.dt)
          /\ seconds_of_day(s.dt) > seconds_of_day(e.dt)

FilesUntouched == \A p \in DOMAIN fs : fs[p] = "old"

\* C6: when a date string matches no accepted format or start > end, the run
\* reports the error and ends with no connect, no qualification, no data
\* request, no conflict prompt and no file write.
C6_ResolverFailureAbortsRun ==
    (\/ args.start_date \in UnparseableRunDates
     \/ args.end_date \in UnparseableRunDates
     \/ StartLaterThanEnd)
      => /\ pc \in {"start", "done"}
         /\ net = NoCalls
         /\ ~connected
         /\ prompts = 0
         /\ writes = <<>>
         /\ FilesUntouched
         /\ pc = "done" =>
              /\ outcome = "returned"
              /\ log \in {{"invalid_format"}, {"start_after_end"}}

C6_Witness ==
    /\ pc = "done"
    /\ args.start_date = <<"2", "0", "2", "4", "-", "0", "1", "-", "1", "5">>
    /\ args.end_date = <<"2", "0", "2", "4", "-", "0", "1", "-", "1", "0">>
    /\ log = {"start_after_end"}
    /\ net = NoCalls

\* the k-th name generate_unique_filename tries for the requested path
RenameCandidate(k) ==
    LET name_part == splitext(output_filename, os_path)[1]
        ext == splitext(output_filename, os_path)[2]
    IN IF k = 0 THEN name_part \o <<"_">> \o timestamp \o ext
       ELSE name_part \o <<"_">> \o timestamp \o <<"_">>
              \o (IF k < 10 THEN <<"0">> ELSE <<>>) \o IntToStr(k) \o ext

\* C8: a rename of an existing path ends after at most one trial per existing
\* path and returns (newPath, true) with newPath not existing: the
\* 'name_YYYYMMDD_HHMMSS.ext' candidate when free, otherwise the first free
\* 'name_YYYYMMDD_HHMMSS_NN.ext' in the order 01, 02, ...
C8_RenameFirstFree ==
    /\ pc = "rename_loop" =>
         /\ counter >= 1
         /\ counter - 1 <= Cardinality(DOMAIN fs)
         /\ unique_filename = RenameCandidate(counter - 1)
         /\ \A j \in 0..(counter - 2) : RenameCandidate(j) \in DOMAIN fs
    /\ (choice \in {<<"R">>, <<"R", "E", "N", "A", "M", "E">>} /\ pc = "save") =>
         /\ should_proceed
         /\ final_filename \notin DOMAIN fs
         /\ \E c \in Clocks : timestamp = strftime_suffix(c)
         /\ \E k \in 0..Cardinality(DOMAIN fs) :
              /\ final_filename = RenameCandidate(k)
              /\ \A j \in 0..(k - 1) : RenameCandidate(j) \in DOMAIN fs

C8_Witness ==
    /\ pc = "save"
    /\ choice = <<"R">>
    /\ <<"a", "_", "2", "0", "2", "4", "0", "2", "2", "9", "_", "0", "9", "3", "0", "1", "5", ".", "c", "s", "v">> \in DOMAIN fs
    /\ final_filename = <<"a", "_", "2", "0", "2", "4", "0", "2", "2", "9", "_", "0", "9", "3", "0", "1", "5", "_", "0", "2", ".", "c", "s", "v">>

\* C9: with the overwrite flag set, or with a path that does not exist, the
\* conflict resolver returns (path, True) for the unchanged path and reads no
\* prompt.
C9_NoPromptCases ==
    /\ args.overwrite => (prompts = 0 /\ pc \notin {"prompt", "rename_loop"})
    /\ (pc = "save" /\ (args.overwrite \/ ~exists(output_filename))) =>
         /\ final_filename = output_filename
         /\ should_proceed
         /\ prompts = 0
         /\ choice = None

C9_Witness ==
    /\ pc = "save"
    /\ args.overwrite
    /\ exists(output_filename)
    /\ final_filename = output_filename
    /\ should_proceed

\* C10: after a cancel answer the resolver has returned (path, False) for the
\* original path and the run ends without any CSV write; every existing file
\* keeps its content.
C10_CancelNeverWrites ==
    choice \in {<<"C">>, <<"C", "A", "N", "C", "E", "L">>} =>
      /\ final_filename = output_filename
      /\ ~should_proceed
      /\ pc \in {"finally", "done"}
      /\ writes = <<>>
      /\ FilesUntouched
      /\ pc = "done" => outcome = "returned"

C10_Witness ==
    /\ pc = "done"
    /\ choice = <<"C", "A", "N", "C", "E", "L">>
    /\ final_filename = output_filename
    /\ ~should_proceed
    /\ net.disconnect = 1


(***************************************************************************)
(* Properties of the write and of the provider calls (checked under Spec). *)
(***************************************************************************)
\* a to_csv call of this run failed with a permission error
PermissionDenied == \E i \in DOMAIN writes : writes[i].result = "PermissionError"

\* C11: when the CSV write fails with a permission error, the call ends with
\* that error raised to its caller after the guidance is printed, and the
\* write is attempted only once.
C11_PermissionErrorPropagated ==
    (pc = "done" /\ PermissionDenied)
      => /\ outcome = "raised"
         /\ exc = "PermissionError"
         /\ "permission_guidance" \in log
         /\ Len(writes) = 1

\* C12: the output file is written at most once, only after the provider
\* returned at least one row and the conflict resolver answered proceed for
\* the path written; a run whose provider returned no rows ends normally with
\* no prompt and no file written.
C12_SingleWriteAfterRowsAndProceed ==
    /\ Len(writes) <= 1
    /\ writes # <<>> =>
         /\ bars >= 1
         /\ should_proceed
         /\ writes[1].path = final_filename
    /\ (bars = 0 /\ pc = "done") =>
         /\ outcome = "returned"
         /\ exc = "none"
         /\ log = {"no_data"}
         /\ prompts = 0
         /\ final_filename = None
         /\ writes = <<>>
         /\ FilesUntouched

\* a run that renamed at the prompt and saved its two rows
C12_Witness ==
    /\ pc = "done"
    /\ bars = 2
    /\ choice = <<"R", "E", "N", "A", "M", "E">>
    /\ Len(writes) = 1
    /\ writes[1].result = "ok"
    /\ writes[1].path # output_filename
    /\ fs[writes[1].path] = "csv"

\* the connection, the qualification or the data request failed: the run
\* left the try block before any bars were received
ProviderFailed ==
    /\ net.connect >= 1
    /\ bars = -1
    /\ pc \in {"except", "finally", "done"}

\* C13: the historical-data request is issued at most once; after a failed
\* connection, qualification or request the run only leaves the function: no
\* second request, no prompt and no file written.
C13_SingleRequestNoRetry ==
    /\ net.request <= 1
    /\ net.connect <= 1
    /\ net.qualify <= 1
    /\ ProviderFailed =>
         /\ prompts = 0
         /\ final_filename = None
         /\ writes = <<>>
         /\ FilesUntouched
         /\ pc = "done" => ~connected /\ "SUCCESS" \notin log

\* a run whose data request timed out after a successful qualification
C13_Witness ==
    /\ pc = "done"
    /\ net = [connect |-> 1, qualify |-> 1, request |-> 1, disconnect |-> 1]
    /\ bars = -1
    /\ log = {"timeout"}
    /\ outcome = "returned"

(***************************************************************************)
(* generate_filename applied on its own to two argument tuples that differ *)
(* in exactly one argument.                                                *)
(***************************************************************************)
\* lines 68-73
VALID_BAR_SIZES ==
    <<<<"1", " ", "s", "e", "c", "s">>, <<"5", " ", "s", "e", "c", "s">>, <<"1", "0", " ", "s", "e", "c", "s">>, <<"1", "5", " ", "s", "e", "c", "s">>, <<"3", "0", " ", "s", "e", "c", "s">>, <<"1", " ", "m", "i", "n">>, <<"2", " ", "m", "i", "n", "s">>, <<"3", " ", "m", "i", "n", "s">>, <<"5", " ", "m", "i", "n", "s">>, <<"1", "0", " ", "m", "i", "n", "s">>, <<"1", "5", " ", "m", "i", "n", "s">>, <<"2", "0", " ", "m", "i", "n", "s">>, <<"3", "0", " ", "m", "i", "n", "s">>, <<"1", " ", "h", "o", "u", "r">>, <<"2", " ", "h", "o", "u", "r", "s">>, <<"3", " ", "h", "o", "u", "r", "s">>, <<"4", " ", "h", "o", "u", "r", "s">>, <<"8", " ", "h", "o", "u", "r", "s">>, <<"1", " ", "d", "a", "y">>, <<"1", " ", "w", "e", "e", "k">>, <<"1", " ", "m", "o", "n", "t", "h">>>>

BarSizes == {VALID_BAR_SIZES[k] : k \in DOMAIN VALID_BAR_SIZES}

NameSymbols == {<<"S", "P", "Y">>, <<"s", "p", "y">>, <<"s", "t", "r", "a", "ß", "e">>}
NameSecurityTypes == {<<"S", "T", "K">>, <<"C", "A", "S", "H">>, <<"F", "U", "T">>}
NameDurations == {<<"1", " ", "Y">>, <<"1", "Y">>, <<"3", "0", " ", "D">>}
NameMonths == {None, <<>>, <<"2", "0", "2", "4", "0", "9">>, <<"2", "0", "2", "4", "1", "2">>}

\* the arguments of generate_filename, in the order of its signature
NameArguments ==
    NameSymbols \X NameSecurityTypes \X NameDurations \X BarSizes \X NameMonths \X BOOLEAN

NameValues ==
    <<NameSymbols, NameSecurityTypes, NameDurations, BarSizes, NameMonths, BOOLEAN>>

NameFields == DOMAIN NameValues

generate_filename_of(t) == generate_filename(t[1], t[2], t[3], t[4], t[5], t[6])

InitNames ==
    /\ \E a \in NameArguments, k \in NameFields :
         \E v \in NameValues[k] \ {a[k]} :
           call = [fn |-> "generate_filename", a |-> a, b |-> [a EXCEPT ![k] = v],
                   differ |-> k]
    /\ result = [tag |-> "none"]
    /\ args = ArgsOf(None, None, None, None, None, FALSE, None, FALSE,
                     <<"m", "a", "r", "k", "e", "t">>)
    /\ os_path = "posixpath"
    /\ fs = [p \in {} |-> "old"]
    /\ InitRest

\* generate_filename is called twice on a and twice on b
GenerateNames ==
    /\ call.fn = "generate_filename"
    /\ result.tag = "none"
    /\ result' = [tag |-> "names",
                  a |-> generate_filename_of(call.a), a2 |-> generate_filename_of(call.a),
                  b |-> generate_filename_of(call.b), b2 |-> generate_filename_of(call.b)]
    /\ UNCHANGED <<args, os_path, call, pc, table_vars, resolver_vars, output_filename,
                   client_vars, conflict_vars, fs, writes, exc, outcome, log>>

NextNames == GenerateNames

SpecNames == InitNames /\ [][NextNames]_vars

WithoutBlanks(s) == SelectSeq(s, LAMBDA c : c # " ")

\* s in capital letters
Capitals(s) == concatenated([k \in 1..Len(s) |-> UpperChar(s[k])])

SameLetters(s, t) == Capitals(s) = Capitals(t)

NoMonth(m) == m = None \/ m = <<>>

\* the one argument in which a and b differ does not reach the file name
DifferenceDropped(a, b, k) ==
    CASE k = 1 -> SameLetters(a[1], b[1])
      [] k = 3 -> WithoutBlanks(a[3]) = WithoutBlanks(b[3])
      [] k = 5 -> a[2] # <<"F", "U", "T">> \/ (NoMonth(a[5]) /\ NoMonth(b[5]))
      [] OTHER -> FALSE

\* C14 as stated: two argument tuples that differ in exactly one argument
\* give different file names.
C14_AnySingleChangeChangesName ==
    result.tag = "names" =>
      /\ result.a = result.a2
      /\ result.b = result.b2
      /\ result.a # result.b

\* C14 amended: generate_filename is deterministic, and two argument tuples
\* that differ in exactly one argument give the same file name exactly when
\* they differ in the letter case of the symbol, in the blanks of the
\* duration, or in a contract month that is not used (security type other
\* than FUT, or both months empty); every other single change (security
\* type, catalog timeframe, extended hours) changes the name.
C14_SingleChangeChangesNameUnlessDropped ==
    result.tag = "names" =>
      /\ result.a = result.a2
      /\ result.b = result.b2
      /\ (result.a = result.b) <=> DifferenceDropped(call.a, call.b, call.differ)

\* '1 min' against '1 month': the names differ in the case of one letter
C14_Witness ==
    /\ result.tag = "names"
    /\ call.differ = 4
    /\ call.a = <<<<"S", "P", "Y">>, <<"S", "T", "K">>, <<"1", " ", "Y">>, <<"1", " ", "m", "i", "n">>, None, FALSE>>
    /\ call.b[4] = <<"1", " ", "m", "o", "n", "t", "h">>
    /\ result.a = <<"S", "P", "Y", "_", "S", "T", "K", "_", "1", "Y", "_", "1", "m", "_", "O", "H", "L", "C", "V", ".", "c", "s", "v">>
    /\ result.b = <<"S", "P", "Y", "_", "S", "T", "K", "_", "1", "Y", "_", "1", "M", "_", "O", "H", "L", "C", "V", ".", "c", "s", "v">>

(***************************************************************************)
(* Properties of the date column (checked under Spec).                     *)
(***************************************************************************)
\* pd.to_datetime raised on the date column of this run, and the run went
\* past the formatting of the column
UnparsedColumnFormatted ==
    /\ bar_dates.dtype = "object"
    /\ bar_dates.read.tag \in {"ValueError", "TypeError"}
    /\ df_output # NoTable

\* the conflict resolution of this run was reached and has ended: with an
\* answer, or at a prompt that was interrupted
ConflictResolved ==
    \/ final_filename # None
    \/ prompts > 0 /\ pc \in {"except", "finally", "done"}

\* the file of this run holds the table: to_csv was called once, on the name
\* the resolver gave, with the rows the provider returned in their order,
\* and it succeeded
FileHoldsAllRows ==
    /\ Len(writes) = 1
    /\ writes[1].path = final_filename
    /\ writes[1].rows = bar_dates.cells
    /\ writes[1].result = "ok"
    /\ final_filename \in DOMAIN fs
    /\ fs[final_filename] = "csv"
    /\ "SUCCESS" \in log

\* C15 as stated: when the date column cannot be parsed, its values stay as
\* the provider returned them, the warning is printed, and the run reaches
\* the conflict resolution and writes the file with all rows in their
\* original order.
C15_UnparsedColumnAlwaysWritten ==
    UnparsedColumnFormatted =>
      /\ "parse_warning" \in log
      /\ df_output.cells = bar_dates.cells
      /\ pc = "done" => ConflictResolved /\ FileHoldsAllRows

\* C15: when the date column cannot be parsed, its values stay as the
\* provider returned them, the warning is printed and the run goes on to the
\* conflict resolution, which it ends; the file is written, with all rows in
\* their original order, exactly when the resolver answers proceed and
\* to_csv succeeds: to_csv is called once, with all rows, exactly when the
\* resolver answers proceed, and never after a cancel or an interrupted
\* prompt.
C15_UnparsedColumnKept ==
    UnparsedColumnFormatted =>
      /\ "parse_warning" \in log
      /\ df_output.cells = bar_dates.cells
      /\ pc \in {"conflict", "prompt", "rename_loop", "save", "except", "finally", "done"}
      /\ pc \in {"save", "except", "finally", "done"} => ConflictResolved
      /\ pc = "save" => should_proceed
      /\ Len(writes) <= 1
      /\ \A i \in DOMAIN writes :
           /\ should_proceed
           /\ writes[i].path = final_filename
           /\ writes[i].rows = bar_dates.cells
           /\ writes[i].result = "ok" => FileHoldsAllRows
      /\ pc \in {"except", "finally", "done"} => (Len(writes) = 1 <=> should_proceed)
      /\ pc = "done" =>
           (FileHoldsAllRows <=> should_proceed /\ writes[1].result = "ok")

\* a run that saved a column it could not parse
C15_Witness ==
    /\ pc = "done"
    /\ UnparsedColumnFormatted
    /\ FileHoldsAllRows
    /\ bar_dates.cells = <<<<"2", "0", "2", "4", "-", "0", "1", "-", "1", "6">>, <<"b", "a", "d">>>>
    /\ "parse_warning" \in log
    /\ Len(writes) = 1
    /\ writes[1].result = "ok"
    /\ writes[1].rows = <<<<"2", "0", "2", "4", "-", "0", "1", "-", "1", "6">>, <<"b", "a", "d">>>>
    /\ writes[1].column = <<"D", "a", "t", "e">>

(***************************************************************************)
(* is_intraday_timeframe and the name of the date column, applied on their *)
(* own to every label of the catalog.                                      *)
(***************************************************************************)
InitColumns ==
    /\ \E tf \in BarSizes, tz \in RunTimezones, now \in ColumnClocks, local_zone \in ColumnZones :
         call = [fn |-> "date_column", timeframe |-> tf, timezone_choice |-> tz,
                 now |-> now, local_zone |-> local_zone]
    /\ result = [tag |-> "none"]
    /\ args = ArgsOf(None, None, None, None, None, FALSE, None, FALSE,
                     <<"m", "a", "r", "k", "e", "t">>)
    /\ os_path = "posixpath"
    /\ fs = [p \in {} |-> "old"]
    /\ InitRest

\* lines 650-665 for the target zone of line 653 and the zone abbreviation
\* read at line 661
named_column(is_intraday, target, abbrev) ==
    IF target.tag # "ok" THEN [tag |-> target.tag]
    ELSE IF is_intraday /\ abbrev.tag # "ok" THEN [tag |-> abbrev.tag]
    ELSE [tag |-> "column", is_intraday |-> is_intraday,
          column |-> date_column_name(is_intraday,
                                      IF is_intraday THEN abbrev.name ELSE <<>>)]

\* lines 650-665: is_intraday_timeframe, the target zone, the column name
NameDateColumn ==
    /\ call.fn = "date_column"
    /\ result.tag = "none"
    /\ result' = named_column(
           is_intraday_timeframe(call.timeframe),
           get_target_timezone(call.timezone_choice, TARGET_SYMBOL,
                               call.local_zone, call.now),
           zone_abbrev(call.timezone_choice,
                       get_target_timezone(call.timezone_choice, TARGET_SYMBOL,
                                           call.local_zone, call.now),
                       call.now))
    /\ UNCHANGED <<args, os_path, call, pc, table_vars, resolver_vars, output_filename,
                   client_vars, conflict_vars, fs, writes, exc, outcome, log>>

NextColumns == NameDateColumn

SpecColumns == InitColumns /\ [][NextColumns]_vars

\* the labels at day, week and month granularity
DailyAndAbove == {<<"1", " ", "d", "a", "y">>, <<"1", " ", "w", "e", "e", "k">>, <<"1", " ", "m", "o", "n", "t", "h">>}

\* the zone abbreviations a column name can carry for a timezone choice
ZoneAbbrevs(timezone_choice) ==
    IF timezone_choice = <<"U", "T", "C">> THEN {<<"U", "T", "C">>}
    ELSE IF timezone_choice = <<"m", "a", "r", "k", "e", "t">>
    THEN {<<"L", "M", "T">>, <<"E", "S", "T">>, <<"E", "D", "T">>, <<"E", "W", "T">>, <<"E", "P", "T">>}
    ELSE {z.name : z \in ColumnZones}

\* the wall clocks pytz cannot give a US/Eastern name: the hour skipped when
\* daylight time starts, the hour repeated when it ends, and the first and
\* the last day a datetime can hold
UnnamedClock(now) ==
    \/ <<now.year, now.month, now.day>> \in {<<1, 1, 1>>, <<9999, 12, 31>>}
    \/ <<now.year, now.month, now.day, now.hour>> \in {<<2024, 3, 10, 2>>, <<2024, 11, 3, 1>>}

\* the wall clocks that, taken for UTC, have no counterpart in the zone of
\* the machine: the last hour of 9999 for a zone an hour east of UTC, the
\* first five hours of the year 1 for a zone five hours west
UnplacedClock(now, local_zone) ==
    \/ /\ local_zone.offset = 60
       /\ <<now.year, now.month, now.day, now.hour>> = <<9999, 12, 31, 23>>
    \/ /\ local_zone.offset = -300
       /\ <<now.year, now.month, now.day>> = <<1, 1, 1>>
       /\ now.hour < 5

\* C16: over the 21 catalog labels is_intraday_timeframe is False for exactly
\* '1 day', '1 week' and '1 month', and the date column is named 'Date' for
\* exactly those and 'DateTime_<ZoneAbbrev>' for the other 18; the only runs
\* that name no column are those of an intraday label in the market zone at a
\* wall clock pytz cannot name and those of any label in the local zone at a
\* wall clock the zone of the machine cannot hold, and each such run names
\* none.
C16_IntradayExactlyBelowDaily ==
    /\ Len(VALID_BAR_SIZES) = 21
    /\ Cardinality(BarSizes) = 21
    /\ DailyAndAbove \subseteq BarSizes
    /\ result.tag = "column" =>
         /\ result.is_intraday <=> call.timeframe \notin DailyAndAbove
         /\ (result.column = <<"D", "a", "t", "e">>) <=> call.timeframe \in DailyAndAbove
         /\ call.timeframe \notin DailyAndAbove =>
              \E z \in ZoneAbbrevs(call.timezone_choice) :
                result.column = <<"D", "a", "t", "e", "T", "i", "m", "e", "_">> \o z
    /\ result.tag # "none" =>
         /\ result.tag \in {"column", "OverflowError", "NonExistentTimeError", "AmbiguousTimeError"}
         /\ result.tag # "column" <=>
              \/ /\ call.timeframe \notin DailyAndAbove
                 /\ call.timezone_choice = <<"m", "a", "r", "k", "e", "t">>
                 /\ UnnamedClock(call.now)
              \/ /\ call.timezone_choice = <<"l", "o", "c", "a", "l">>
                 /\ UnplacedClock(call.now, call.local_zone)

\* '8 hours' in the market zone during daylight time
C16_Witness ==
    /\ result.tag = "column"
    /\ call.timeframe = <<"8", " ", "h", "o", "u", "r", "s">>
    /\ call.timezone_choice = <<"m", "a", "r", "k", "e", "t">>
    /\ result.is_intraday
    /\ result.column = <<"D", "a", "t", "e", "T", "i", "m", "e", "_", "E", "D", "T">>

(***************************************************************************)
(* Properties of the conflict prompt (checked under Spec).                 *)
(***************************************************************************)
\* the line, without the whitespace around it and whatever its letter case,
\* is w
AnswerIs(line, w) ==
    \E i \in 1..(Len(line) + 1), j \in 0..Len(line) :
      /\ \A k \in 1..(i - 1) : line[k] \in Whitespace
      /\ \A k \in (j + 1)..Len(line) : line[k] \in Whitespace
      /\ SameLetters(SubSeq(line, i, j), w)

\* what a line typed at the prompt asks for
Intent(line) ==
    IF AnswerIs(line, <<"O">>) \/ AnswerIs(line, <<"O", "V", "E", "R", "W", "R", "I", "T", "E">>) THEN "overwrite"
    ELSE IF AnswerIs(line, <<"R">>) \/ AnswerIs(line, <<"R", "E", "N", "A", "M", "E">>) THEN "rename"
    ELSE IF AnswerIs(line, <<"C">>) \/ AnswerIs(line, <<"C", "A", "N", "C", "E", "L">>) THEN "cancel"
    ELSE "invalid"

IntentOf == [line \in Answers \cup {None} |-> Intent(line)]

\* the resolver has read at least one line and has returned
ResolverReturned == prompts > 0 /\ final_filename # None

\* C17: handle_file_conflict reads input only when the path exists and the
\* overwrite flag is false; it prompts again after every answer that is not
\* O/OVERWRITE, R/RENAME or C/CANCEL (in any letter case, blanks around it
\* ignored) and returns only on such an answer: (path, True) for overwrite,
\* (another path, True) for rename, (path, False) for cancel.
C17_PromptUntilValidAnswer ==
    /\ prompts > 0 => exists(output_filename) /\ ~args.overwrite
    /\ (pc = "prompt" /\ prompts > 0) => IntentOf[answer] = "invalid"
    /\ (prompts > 0 /\ IntentOf[answer] = "invalid") =>
         /\ final_filename = None
         /\ ~should_proceed
         /\ pc \in {"prompt", "except", "finally", "done"}
         /\ pc # "prompt" => exc # "none" \/ "unexpected" \in log
    /\ pc = "rename_loop" => IntentOf[answer] = "rename" /\ final_filename = None
    /\ ResolverReturned =>
         CASE IntentOf[answer] = "overwrite" ->
                final_filename = output_filename /\ should_proceed
           [] IntentOf[answer] = "rename" ->
                final_filename # output_filename /\ should_proceed
           [] IntentOf[answer] = "cancel" ->
                final_filename = output_filename /\ ~should_proceed
           [] OTHER -> FALSE

\* two answers that are no choice, then a rename typed with blanks around it
C17_Witness ==
    /\ prompts = 3
    /\ answer = <<"\t", "r", " ">>
    /\ "invalid_choice" \in log
    /\ final_filename # None
    /\ final_filename # output_filename
    /\ should_proceed
    /\ pc = "done"

(***************************************************************************)
(* Properties of the connection (checked under Spec).                      *)
(***************************************************************************)
\* ib.connect returned: the qualification that follows it is next or was
\* attempted
ConnectionEstablished == pc = "qualify" \/ net.qualify >= 1

\* C18: a run that established the connection disconnects before the call
\* ends, whatever the exit path (saved, no rows, cancelled at the prompt,
\* failed qualification or request, failed write, uncaught interrupt); no
\* run ends with the connection open.
C18_AlwaysDisconnected ==
    /\ connected => ConnectionEstablished /\ net.disconnect = 0 /\ pc # "done"
    /\ net.disconnect <= 1
    /\ pc = "done" =>
         /\ ~connected
         /\ net.disconnect = (IF ConnectionEstablished THEN 1 ELSE 0)

\* the prompt was interrupted: the exception leaves the function after the
\* disconnect
C18_Witness ==
    /\ pc = "done"
    /\ outcome = "raised"
    /\ exc = "KeyboardInterrupt"
    /\ net = [connect |-> 1, qualify |-> 1, request |-> 1, disconnect |-> 1]
    /\ ~connected

=============================================================================
